---- MODULE Spec2Model ----
(***************************************************************************)
(* Model of the clipfolio main process: the fingerprinted artefact caches  *)
(* (ffprobe metadata, thumbnails, extracted audio) with their in-flight    *)
(* registries, the export pipeline with its cancel handler and size loop,  *)
(* and the folder watch; and of the renderer's AsyncQueue.                 *)
(*                                                                         *)
(* Node runs every handler to its next await without interleaving, so one  *)
(* action is one synchronous run: the body of an ipcMain handler up to its *)
(* await, or one callback of the external engine together with the promise *)
(* reactions (finally, the resumed awaits) it triggers.                    *)
(*                                                                         *)
(* Environment: the sha1 fingerprint is taken to be collision free, so a   *)
(* cache path is identified with the pair <<path, stat>>; a stat is one    *)
(* number standing for the pair (mtimeMs, size); source files exist and    *)
(* only ever get newer; an engine process writes its output file when it   *)
(* reports 'end', and files in the cache directories persist until the     *)
(* code removes them.  The three caches share no state but the source     *)
(* file, so a run exercises the handler of one artefact kind (focus).      *)
(* The exports are those of one renderer (one sender id).                  *)
(***************************************************************************)
EXTENDS Integers, Sequences, FiniteSets, TLC

\* ------------------------------------------------------------------ bounds
MaxCalls == 3
MaxAudioCalls == 2
MaxJobs == 2
MaxTouch == 1
\* The audio stream counts of the source files considered.
StreamCounts == {0, 1, 2}

Paths == {"a.mp4"}
Stats == 0..MaxTouch
Keys == Paths \X Stats
NoKey == <<"none", 0>>
Kinds == {"meta", "thumb", "audio"}
TrackIds == {n \in StreamCounts : n > 0}

MaxDuration == 3
MaxTasks == 4
MaxLimit == 2
MaxFsEvents == 3
MaxWatches == 2
\* The 500 ms debounce window, in clock ticks.
DebounceTicks == 2
\* The size targets (targetSizeMB; 0 stands for none given) and the trim
\* durations (endTime - startTime, whole seconds) of the exports considered.
TargetSizesMB == {0, 1, 10}
Durations == (1..MaxDuration) \cup {30, 60, 600}
\* The most audio streams a source of an export has.
MaxAudioStreams == 3
\* The track volumes of the exports considered, in hundredths (the volume
\* slider moves in steps of 0.01 from 0 to 2): 100 is the volume 1.0.
Volumes == {50, 100, 150}
\* The track has no entry in audioTracks, or its volume is not a number.
NoVolume == 0 - 1
AudioModes == {"combine", "separate", "undefined"}
OutputTypes == {"video", "mp3"}
Qualities == {"full", "compressed"}
\* The most progress events the engine reports in a run.
MaxProgress == 2

VARIABLES
    focus,                \* the artefact kind whose handler this run exercises
    fileStat,             \* path -> current stat of the source file
    numStreams,           \* path -> number of audio streams ffprobe reports
    metadataMemoryCache,  \* path -> key whose metadata is held, or NoKey
    metaFiles,            \* key -> the metadata JSON file: absent, empty or full
    metaTasks,            \* key -> task id of the registered promise, 0 if none
    thumbFiles,           \* key -> the thumbnail JPEG: absent, empty or full
    thumbTasks,           \* key -> task id, 0 if none
    audioDir,             \* key -> track -> audio_track_i.wav: absent, empty or full
    audioExtractTasks,    \* key -> task id, 0 if none
    tasks,                \* every generation promise created so far
    calls,                \* every handler invocation so far
    activeExports,        \* sender id -> <<job, pass>> of the registered command
    canceledExports,      \* sender ids with a cancel under way
    jobs,                 \* every export-video invocation so far
    targetSizeMB,         \* the targetSizeMB argument of the exports
    duration,             \* endTime - startTime of the exports
    concurrency,          \* AsyncQueue: the limit the constructor set
    running,              \* AsyncQueue: the running counter
    queue,                \* AsyncQueue: the waiting run closures (task ids)
    qtasks,               \* every task submitted with add(), in that order
    startLog,             \* the tasks in the order they were started
    fsState,              \* video file under the root -> absent, empty or full
    epoch,                \* video file -> how many times it has appeared
    fsEvents,             \* file-system changes and raw notifications so far
    sinceNote,            \* video file -> ticks since its last notification
    folderWatchers,       \* the watch registered for the root, 0 if none
    watches,              \* every watch started so far (the closures' state)
    timers,               \* every debounce timer armed so far
    evals,                \* every evaluation a fired timer has made
    mainWindow,           \* whether the window exists
    numAudioStreams,      \* the audio streams ffprobe reports for the export
    audioTracks,          \* stream index -> the volume given for it, if any
    audioMode,            \* the audioMode argument of the exports
    outputType,           \* the outputType argument of the exports
    quality,              \* the quality argument of the exports
    exportTokenRef,       \* renderer: the token of its latest handleExport()
    progressEvents,       \* every 'export-progress' message sent so far
    panel                 \* renderer: what the export panel shows, and its calls

cacheVars == <<focus, fileStat, numStreams, metadataMemoryCache, metaFiles, metaTasks,
               thumbFiles, thumbTasks, audioDir, audioExtractTasks, tasks, calls>>

exportVars == <<activeExports, canceledExports, jobs, targetSizeMB, duration>>

queueVars == <<concurrency, running, queue, qtasks, startLog>>

watchVars == <<fsState, epoch, fsEvents, sinceNote, folderWatchers, watches,
               timers, evals, mainWindow>>

\* The arguments of the exports that shape the ffmpeg command.
planVars == <<numAudioStreams, audioTracks, audioMode, outputType, quality>>

\* The progress reports of the exports, and the renderer that receives them.
progressVars == <<exportTokenRef, progressEvents, panel>>

\* What neither the caches nor the exports touch.
otherVars == <<queueVars, watchVars, planVars, progressVars>>

vars == <<cacheVars, exportVars, otherVars>>

\* ------------------------------------------------------------- fingerprints
computeMetaCachePath(p) == <<p, fileStat[p]>>
computeCachedThumbPath(p) == <<p, fileStat[p]>>
computeAudioCacheDir(p) == <<p, fileStat[p]>>

\* ------------------------------------------------------------ bookkeeping
Max(a, b) == IF a >= b THEN a ELSE b

NoTracks == [i \in TrackIds |-> "none"]
\* A file of a cache: not there, there with size 0, there with content.
FileStates == {"absent", "empty", "full"}
EmptyDir == [i \in TrackIds |-> "absent"]
NoFiles == [k \in Keys |-> "absent"]
\* How many files a cache directory holds.
FilesIn(dir) == Cardinality({i \in TrackIds : dir[i] # "absent"})

\* A generation promise.  For the record, of an audio extraction: the files
\* in its cache directory when the handler had created it, whether it resolved
\* with the files it found, whether the expected files were all there with
\* content when it took them or when its last track ended, and the files in
\* the directory once it had settled.  And the 30 s timer of each track:
\* armed, cleared, or fired, when it either killed the track's process or
\* lapsed without doing anything.
NewTask(kind, p, key, force) ==
    [kind |-> kind, path |-> p, key |-> key, force |-> force,
     phase |-> "probing", res |-> "pending", expected |-> 0,
     completed |-> 0, hasError |-> FALSE, tracks |-> NoTracks,
     found |-> 0, reused |-> FALSE, valid |-> "unknown", left |-> 0,
     timers |-> NoTracks]

\* The invocations still awaiting their promise.
Open == {i \in DOMAIN calls : calls[i].st = "pending"}

\* One invocation: the path and cache path it computed, the promise it awaits
\* (0 if it returned at once), whether it created that promise, its result,
\* and, for the record, the invocations that were awaiting when it arrived
\* and whether the promise it joined had already settled; and for one that
\* returned at once, the state of the file of the artefact it returned.
NewCall(kind, p, key, force, task, started, st, val) ==
    [kind |-> kind, path |-> p, key |-> key, force |-> force, task |-> task,
     started |-> started, st |-> st, val |-> val, open |-> Open, late |-> FALSE,
     found |-> IF task # 0 THEN "none"
               ELSE IF kind = "thumb" THEN thumbFiles[val] ELSE metaFiles[val]]

\* The awaits on promise t resume with its result.
SettleCalls(cs, t, r, v) ==
    [i \in DOMAIN cs |->
        IF cs[i].task = t /\ cs[i].st = "pending"
        THEN [cs[i] EXCEPT !.st = r, !.val = v]
        ELSE cs[i]]

CanCall(kind) == focus = kind /\ Len(calls) < MaxCalls
CanCallAudio ==
    /\ CanCall("audio")
    /\ Cardinality({i \in DOMAIN calls : calls[i].kind = "audio"}) < MaxAudioCalls

\* `await` on the registered promise t: pending, or its result if it has settled.
JoinCall(kind, p, key, force, t) ==
    [kind |-> kind, path |-> p, key |-> key, force |-> force, task |-> t,
     started |-> FALSE, st |-> tasks[t].res,
     val |-> IF tasks[t].res = "ok" THEN key ELSE NoKey,
     open |-> Open, late |-> tasks[t].res # "pending", found |-> "none"]

\* --------------------------------------------------------------- metadata
\* fs.existsSync(cachePath), then JSON.parse of what is read: an empty file
\* does not parse, the exception is caught and the handler goes on.
ParsedFromDisk(file) == file = "full"

\* ipcMain.handle('get-cached-metadata'), up to `return await p`.
GetCachedMetadata(p) ==
    /\ CanCall("meta")
    /\ LET key == computeMetaCachePath(p)
           t == Len(tasks) + 1
       IN  IF metadataMemoryCache[p] # NoKey
           THEN /\ calls' = Append(calls, NewCall("meta", p, key, FALSE, 0, FALSE,
                                                  "ok", metadataMemoryCache[p]))
                /\ UNCHANGED <<metadataMemoryCache, metaTasks, tasks>>
           ELSE IF ParsedFromDisk(metaFiles[key])
           THEN /\ metadataMemoryCache' = [metadataMemoryCache EXCEPT ![p] = key]
                /\ calls' = Append(calls, NewCall("meta", p, key, FALSE, 0, FALSE,
                                                  "ok", key))
                /\ UNCHANGED <<metaTasks, tasks>>
           ELSE IF metaTasks[key] # 0
           THEN /\ calls' = Append(calls, JoinCall("meta", p, key, FALSE, metaTasks[key]))
                /\ UNCHANGED <<metadataMemoryCache, metaTasks, tasks>>
           ELSE /\ tasks' = Append(tasks, NewTask("meta", p, key, FALSE))
                /\ metaTasks' = [metaTasks EXCEPT ![key] = t]
                /\ calls' = Append(calls, NewCall("meta", p, key, FALSE, t, TRUE,
                                                  "pending", NoKey))
                /\ UNCHANGED metadataMemoryCache
    /\ UNCHANGED <<exportVars, otherVars>>
    /\ UNCHANGED <<focus, fileStat, numStreams, metaFiles, thumbFiles, thumbTasks,
                   audioDir, audioExtractTasks>>

\* The ffprobe callback of a metadata task, then .finally and the awaits.
MetaProbeDone(t, ok) ==
    /\ t \in DOMAIN tasks
    /\ tasks[t].kind = "meta"
    /\ tasks[t].phase = "probing"
    /\ LET key == tasks[t].key
           r == IF ok THEN "ok" ELSE "err"
       IN  /\ tasks' = [tasks EXCEPT ![t].phase = "finished", ![t].res = r]
           /\ metaFiles' = IF ok THEN [metaFiles EXCEPT ![key] = "full"] ELSE metaFiles
           /\ metadataMemoryCache' =
                 IF ok THEN [metadataMemoryCache EXCEPT ![tasks[t].path] = key]
                 ELSE metadataMemoryCache
           /\ metaTasks' = [metaTasks EXCEPT ![key] = 0]
           /\ calls' = SettleCalls(calls, t, r, IF ok THEN key ELSE NoKey)
    /\ UNCHANGED <<exportVars, otherVars>>
    /\ UNCHANGED <<focus, fileStat, numStreams, thumbFiles, thumbTasks, audioDir,
                   audioExtractTasks>>

\* -------------------------------------------------------------- thumbnail
\* fs.existsSync(f)
existsSync(file) == file # "absent"

\* ipcMain.handle('get-cached-thumbnail'), up to `return await task`.
GetCachedThumbnail(p) ==
    /\ CanCall("thumb")
    /\ LET outPath == computeCachedThumbPath(p)
           t == Len(tasks) + 1
       IN  IF existsSync(thumbFiles[outPath])
           THEN /\ calls' = Append(calls, NewCall("thumb", p, outPath, FALSE, 0, FALSE,
                                                  "ok", outPath))
                /\ UNCHANGED <<thumbTasks, tasks>>
           ELSE IF thumbTasks[outPath] # 0
           THEN /\ calls' = Append(calls, JoinCall("thumb", p, outPath, FALSE,
                                                   thumbTasks[outPath]))
                /\ UNCHANGED <<thumbTasks, tasks>>
           ELSE /\ tasks' = Append(tasks, NewTask("thumb", p, outPath, FALSE))
                /\ thumbTasks' = [thumbTasks EXCEPT ![outPath] = t]
                /\ calls' = Append(calls, NewCall("thumb", p, outPath, FALSE, t, TRUE,
                                                  "pending", NoKey))
    /\ UNCHANGED <<exportVars, otherVars>>
    /\ UNCHANGED <<focus, fileStat, numStreams, metadataMemoryCache, metaFiles, metaTasks,
                   thumbFiles, audioDir, audioExtractTasks>>

\* The 'end' or 'error' event of the screenshot command, then .finally and the awaits.
ThumbDone(t, ok) ==
    /\ t \in DOMAIN tasks
    /\ tasks[t].kind = "thumb"
    /\ tasks[t].phase = "probing"
    /\ LET outPath == tasks[t].key
           r == IF ok THEN "ok" ELSE "err"
       IN  /\ tasks' = [tasks EXCEPT ![t].phase = "finished", ![t].res = r]
           /\ thumbFiles' = IF ok THEN [thumbFiles EXCEPT ![outPath] = "full"]
                            ELSE thumbFiles
           /\ thumbTasks' = [thumbTasks EXCEPT ![outPath] = 0]
           /\ calls' = SettleCalls(calls, t, r, IF ok THEN outPath ELSE NoKey)
    /\ UNCHANGED <<exportVars, otherVars>>
    /\ UNCHANGED <<focus, fileStat, numStreams, metadataMemoryCache, metaFiles, metaTasks,
                   audioDir, audioExtractTasks>>

\* -------------------------------------------------------- extracted audio
\* checkExisting(expected): every expected file is there with size > 0.
checkExisting(dir, expected) == \A i \in 1..expected : dir[i] = "full"

\* A faulty validity check that takes any file that is there.
allValidAnySize(dir, expected) == \A i \in 1..expected : dir[i] # "absent"

\* allValid: outputs.every(f => fs.existsSync(f) && fs.statSync(f).size > 0)
allValid(dir, expected) ==
    \A i \in 1..expected : existsSync(dir[i]) /\ dir[i] # "empty"

\* cleanupCache(): unlink every file of the cache directory.
cleanupCache(dirs, key) == [dirs EXCEPT ![key] = EmptyDir]

\* A faulty test that returns the cached set to a forceRefresh request too.
UseExistingForced(dir, expected, force) == checkExisting(dir, expected)

\* `existing && !forceRefresh`: the cached set is returned without extraction.
UseExisting(dir, expected, force) == checkExisting(dir, expected) /\ ~force

\* The registry after the forceRefresh branch of the handler.
RegistryAfterForce(reg, key, force) ==
    IF force THEN [reg EXCEPT ![key] = 0] ELSE reg

\* A faulty .finally that leaves the registration in place.
RegistryKept(reg, key, t) == reg

\* .finally(() => audioExtractTasks.delete(cacheDir)) of task t.
RegistryAfterFinally(reg, key, t) == [reg EXCEPT ![key] = 0]

\* ipcMain.handle('get-cached-extracted-audio'), up to `return await task`.
GetCachedExtractedAudio(p, forceRefresh) ==
    /\ CanCallAudio
    /\ LET cacheDir == computeAudioCacheDir(p)
           reg == RegistryAfterForce(audioExtractTasks, cacheDir, forceRefresh)
           t == Len(tasks) + 1
       IN  /\ audioDir' = IF forceRefresh THEN cleanupCache(audioDir, cacheDir)
                          ELSE audioDir
           /\ IF reg[cacheDir] # 0
              THEN /\ calls' = Append(calls, JoinCall("audio", p, cacheDir, forceRefresh,
                                                      reg[cacheDir]))
                   /\ audioExtractTasks' = reg
                   /\ UNCHANGED tasks
              ELSE /\ tasks' = Append(tasks,
                                      [NewTask("audio", p, cacheDir, forceRefresh)
                                          EXCEPT !.found = FilesIn(audioDir'[cacheDir])])
                   /\ audioExtractTasks' = [reg EXCEPT ![cacheDir] = t]
                   /\ calls' = Append(calls, NewCall("audio", p, cacheDir, forceRefresh,
                                                     t, TRUE, "pending", NoKey))
    /\ UNCHANGED <<exportVars, otherVars>>
    /\ UNCHANGED <<focus, fileStat, numStreams, metadataMemoryCache, metaFiles, metaTasks,
                   thumbFiles, thumbTasks>>

\* The ffprobe callback of an extraction task.
AudioProbeDone(t, ok) ==
    /\ t \in DOMAIN tasks
    /\ tasks[t].kind = "audio"
    /\ tasks[t].phase = "probing"
    /\ LET key == tasks[t].key
           expected == numStreams[tasks[t].path]
           done == [tasks EXCEPT ![t].phase = "finished", ![t].expected = expected]
       IN  IF ~ok
           THEN /\ tasks' = [done EXCEPT ![t].res = "err"]
                /\ audioExtractTasks' = RegistryAfterFinally(audioExtractTasks, key, t)
                /\ calls' = SettleCalls(calls, t, "err", NoKey)
                /\ UNCHANGED audioDir
           ELSE IF expected <= 0 \/ UseExisting(audioDir[key], expected, tasks[t].force)
           THEN /\ tasks' = [done EXCEPT
                                ![t].res = "ok",
                                ![t].reused = expected > 0,
                                ![t].valid =
                                    IF expected <= 0 THEN "unknown"
                                    ELSE IF \A i \in 1..expected : audioDir[key][i] = "full"
                                    THEN "yes" ELSE "no"]
                /\ audioExtractTasks' = RegistryAfterFinally(audioExtractTasks, key, t)
                /\ calls' = SettleCalls(calls, t, "ok", key)
                /\ UNCHANGED audioDir
           ELSE /\ tasks' = [tasks EXCEPT
                                ![t].phase = "extracting",
                                ![t].expected = expected,
                                ![t].tracks = [i \in TrackIds |->
                                    IF i <= expected THEN "running" ELSE "none"],
                                ![t].timers = [i \in TrackIds |->
                                    IF i <= expected THEN "armed" ELSE "none"]]
                /\ audioDir' = cleanupCache(audioDir, key)
                /\ UNCHANGED <<audioExtractTasks, calls>>
    /\ UNCHANGED <<exportVars, otherVars>>
    /\ UNCHANGED <<focus, fileStat, numStreams, metadataMemoryCache, metaFiles, metaTasks,
                   thumbFiles, thumbTasks>>

\* A faulty handler that leaves the track's timer armed.
TimerLeft(timer) == timer

\* clearTimeout(timeout) in the 'end' and 'error' handlers of a track: a
\* timer that has not fired never will.
TimerAfter(timer) == IF timer = "armed" THEN "cleared" ELSE timer

\* The phase of a task once one more of its track processes has terminated.
PhaseAfter(trk) ==
    IF \A i \in TrackIds : trk[i] # "running"
    THEN "finished" ELSE "extracting"

\* A faulty test that waits for one more track than was started.
AllCompletedAndOne(completed, expected, hasError) ==
    completed = expected + 1 /\ ~hasError

\* if (completed === expected && !hasError) in the 'end' handler.
AllCompleted(completed, expected, hasError) ==
    completed = expected /\ ~hasError

\* The 'end' handler of track `index` of task t; `wrote` is what the process
\* has left at the track's output path.
TrackEnded(t, index, wrote) ==
    /\ LET key == tasks[t].key
           trk == [tasks[t].tracks EXCEPT ![index] = "resolved"]
           completed == tasks[t].completed + 1
           written == [audioDir EXCEPT ![key][index] = wrote]
           upd == [tasks EXCEPT ![t].tracks = trk, ![t].completed = completed,
                                ![t].phase = PhaseAfter(trk),
                                ![t].timers[index] = TimerAfter(@)]
           sound == \A i \in 1..tasks[t].expected : written[key][i] = "full"
           cleaned == cleanupCache(written, key)
       IN  IF AllCompleted(completed, tasks[t].expected, tasks[t].hasError)
           THEN IF allValid(written[key], tasks[t].expected)
                THEN /\ tasks' = [upd EXCEPT ![t].res = "ok",
                                             ![t].valid = IF sound THEN "yes" ELSE "no",
                                             ![t].left = FilesIn(written[key])]
                     /\ audioExtractTasks' =
                            RegistryAfterFinally(audioExtractTasks, key, t)
                     /\ calls' = SettleCalls(calls, t, "ok", key)
                     /\ audioDir' = written
                ELSE /\ tasks' = [upd EXCEPT ![t].res = "err",
                                             ![t].valid = IF sound THEN "yes" ELSE "no",
                                             ![t].left = FilesIn(cleaned[key])]
                     /\ audioExtractTasks' =
                            RegistryAfterFinally(audioExtractTasks, key, t)
                     /\ calls' = SettleCalls(calls, t, "err", NoKey)
                     /\ audioDir' = cleaned
           ELSE /\ tasks' = upd
                /\ audioDir' = written
                /\ UNCHANGED <<audioExtractTasks, calls>>
    /\ UNCHANGED <<exportVars, otherVars>>
    /\ UNCHANGED <<focus, fileStat, numStreams, metadataMemoryCache, metaFiles, metaTasks,
                   thumbFiles, thumbTasks>>

\* Track `index` of task t ends and has written its file.
TrackEnd(t, index) ==
    /\ t \in DOMAIN tasks
    /\ tasks[t].kind = "audio"
    /\ tasks[t].tracks[index] = "running"
    /\ TrackEnded(t, index, "full")

\* Track `index` of task t ends and has left an empty file.
TrackEndEmpty(t, index) ==
    /\ t \in DOMAIN tasks
    /\ tasks[t].kind = "audio"
    /\ tasks[t].tracks[index] = "running"
    /\ TrackEnded(t, index, "empty")

\* What the 'error' handler of track `index` of task t does, the tasks being
\* as given.
ErrorHandler(ts, t, index) ==
    LET key == ts[t].key
        trk == [ts[t].tracks EXCEPT ![index] = "resolved"]
        upd == [ts EXCEPT ![t].tracks = trk, ![t].phase = PhaseAfter(trk),
                          ![t].timers[index] = TimerAfter(@)]
    IN  IF ~ts[t].hasError
        THEN /\ tasks' = [upd EXCEPT ![t].hasError = TRUE, ![t].res = "err"]
             /\ audioDir' = cleanupCache(audioDir, key)
             /\ audioExtractTasks' = RegistryAfterFinally(audioExtractTasks, key, t)
             /\ calls' = SettleCalls(calls, t, "err", NoKey)
        ELSE /\ tasks' = upd
             /\ UNCHANGED <<audioDir, audioExtractTasks, calls>>

\* Track `index` of task t fails by itself: its 'error' handler runs.
TrackError(t, index) ==
    /\ t \in DOMAIN tasks
    /\ tasks[t].kind = "audio"
    /\ tasks[t].tracks[index] = "running"
    /\ ErrorHandler(tasks, t, index)
    /\ UNCHANGED <<exportVars, otherVars>>
    /\ UNCHANGED <<focus, fileStat, numStreams, metadataMemoryCache, metaFiles, metaTasks,
                   thumbFiles, thumbTasks>>

\* if (!trackResolved): the timer callback kills the process of a track that
\* has neither ended nor failed.
Kills(track) == track = "running"

\* The 30 s timer of track `index` fires.  If the track has not resolved the
\* process is killed and reports 'error': nothing reads the process between
\* the kill and that event, so the two are one step.  Otherwise the callback
\* does nothing.
TrackTimeout(t, index) ==
    /\ t \in DOMAIN tasks
    /\ tasks[t].kind = "audio"
    /\ tasks[t].timers[index] = "armed"
    /\ IF Kills(tasks[t].tracks[index])
       THEN ErrorHandler([tasks EXCEPT ![t].timers[index] = "killed"], t, index)
       ELSE /\ tasks' = [tasks EXCEPT ![t].timers[index] = "lapsed"]
            /\ UNCHANGED <<audioDir, audioExtractTasks, calls>>
    /\ UNCHANGED <<exportVars, otherVars>>
    /\ UNCHANGED <<focus, fileStat, numStreams, metadataMemoryCache, metaFiles, metaTasks,
                   thumbFiles, thumbTasks>>

\* ------------------------------------------------------------ file system
\* The source file is re-saved: its mtime or size changes.
TouchFile(p) ==
    /\ fileStat[p] < MaxTouch
    /\ fileStat' = [fileStat EXCEPT ![p] = @ + 1]
    /\ UNCHANGED <<exportVars, otherVars>>
    /\ UNCHANGED <<focus, numStreams, metadataMemoryCache, metaFiles, metaTasks, thumbFiles,
                   thumbTasks, audioDir, audioExtractTasks, tasks, calls>>

\* ------------------------------------------------------------------ export
Sessions == {1}
NoCmd == <<0, 0>>

\* The messages of the 'error' event of an encode command: the engine's exit
\* report, and the report of a process ended by a signal.
ExitMessage == "ffmpeg exited with code 1"
KillMessage == "ffmpeg was killed with signal SIGKILL"
Messages == {ExitMessage, KillMessage}

\* /kill|SIGKILL|terminated|canceled/i.test(msg)
MatchesCancelPattern(msg) == msg = KillMessage

\* const wasCanceled = canceledExports.has(senderId) || /.../i.test(msg)
WasCanceled(senderId, msg) ==
    senderId \in canceledExports \/ MatchesCancelPattern(msg)

\* const targetBytes = (targetSizeMB || 10) * 1024 * 1024
targetBytes == (IF targetSizeMB = 0 THEN 10 ELSE targetSizeMB) * 1024 * 1024

\* Math.max(1, Math.floor(targetBytes * safetyRatio * 8)), the safety ratio
\* being 0.92: 0.92 * 8 = 184 / 25.
targetBits == Max(1, (targetBytes * 184) \div 25)

\* A faulty first bitrate that forgets the audio estimate.
FirstBitrateNoAudio == Max(100, targetBits \div (duration * 1000))

\* Math.max(100, Math.floor(targetBits / duration / 1000) - audioBitrateKbps)
FirstBitrate == Max(100, targetBits \div (duration * 1000) - 128)

\* Math.max(100, Math.floor(videoBitrateKbps * 0.85))
RetryBitrate(videoBitrateKbps) == Max(100, (videoBitrateKbps * 85) \div 100)

\* ------------------------------------------------------------ command plan
\* The stream specifiers and filter labels of a plan: 0:v:0, 0:a:i, [ai] and
\* [aout].
VideoStream == <<"0:v", 0>>
SourceAudio(i) == <<"0:a", i>>
GainLabel(i) == <<"a", i>>
MixLabel == <<"aout", 0>>

\* The filters of a plan: [0:a:i]volume=vol[ai] and
\* <labels>amix=inputs=N:duration=longest[aout].
GainStage(i, vol) ==
    [filter |-> "volume", inputs |-> <<SourceAudio(i)>>, volume |-> vol,
     n |-> 1, duration |-> "", out |-> GainLabel(i)]
Mix(inputLabels) ==
    [filter |-> "amix", inputs |-> inputLabels, volume |-> 0,
     n |-> Len(inputLabels), duration |-> "longest", out |-> MixLabel]

\* The output options of a plan: '-map', <stream or label> and '-vn'.
MapOption(what) == [opt |-> "-map", arg |-> what]
NoVideo == [opt |-> "-vn", arg |-> <<"", 0>>]

\* getVolumeForIndex(idx): 1.0 for a stream without an entry or whose entry
\* has no numeric volume.
getVolumeForIndex(idx) ==
    IF idx \in DOMAIN audioTracks /\ audioTracks[idx] # NoVolume
    THEN audioTracks[idx]
    ELSE 100

\* A faulty gain test that leaves every stream as it is.
NeedsGainNever(vol) == FALSE

\* Math.abs(vol - 1.0) > 1e-6
NeedsGain(vol) == vol # 100

\* The label of stream i where a plan reads it: its gain stage if it has one.
inputLabel(i) ==
    IF NeedsGain(getVolumeForIndex(i)) THEN GainLabel(i) ELSE SourceAudio(i)

\* The gain stages pushed by the loop over the streams 0 .. k-1.
RECURSIVE gainStages(_)
gainStages(k) ==
    IF k = 0 THEN <<>>
    ELSE LET vol == getVolumeForIndex(k - 1)
         IN  IF NeedsGain(vol)
             THEN Append(gainStages(k - 1), GainStage(k - 1, vol))
             ELSE gainStages(k - 1)

\* A faulty mixing choice that takes the requested mode for every output.
useCombineAsAsked(mode, type) == mode = "combine"

\* const useCombine = type === 'mp3' ? true : (mode === 'combine')
useCombine(mode, type) == IF type = "mp3" THEN TRUE ELSE mode = "combine"

\* A faulty single-stream test that maps the only stream directly whatever
\* its volume.
mapsDirectlyAnyVolume(inputLabels) == Len(inputLabels) = 1

\* inputLabels.length === 1 && inputLabels[0] === '[0:a:0]'
mapsDirectly(inputLabels) ==
    Len(inputLabels) = 1 /\ inputLabels[1] = SourceAudio(0)

\* buildFilterAndMaps(mode, type)
buildFilterAndMaps(mode, type) ==
    LET videoPart == IF type = "video" THEN <<MapOption(VideoStream)>>
                     ELSE <<NoVideo>>
        inputLabels == [i \in 1..numAudioStreams |-> inputLabel(i - 1)]
    IN  IF numAudioStreams <= 0
        THEN [filterParts |-> <<>>, mapOptions |-> videoPart]
        ELSE IF useCombine(mode, type)
        THEN IF mapsDirectly(inputLabels)
             THEN [filterParts |-> gainStages(numAudioStreams),
                   mapOptions |-> Append(videoPart, MapOption(SourceAudio(0)))]
             ELSE [filterParts |-> Append(gainStages(numAudioStreams),
                                          Mix(inputLabels)),
                   mapOptions |-> Append(videoPart, MapOption(MixLabel))]
        ELSE [filterParts |-> gainStages(numAudioStreams),
              mapOptions |-> videoPart \o
                  [i \in 1..numAudioStreams |-> MapOption(inputLabel(i - 1))]]

\* const type = outputType === 'mp3' ? 'mp3' : 'video'
outputKind == IF outputType = "mp3" THEN "mp3" ELSE "video"

\* buildFilterAndMaps(audioMode || 'combine', type), as encodeOnce calls it.
encodePlan ==
    buildFilterAndMaps(IF audioMode = "undefined" THEN "combine" ELSE audioMode,
                       outputKind)

\* A faulty pass count that sends every compressed export, audio-only ones
\* too, through the size loop.
SizeTargetedAnyOutput == quality = "compressed"

\* outputType === 'mp3' || quality !== 'compressed' returns after one
\* encodeOnce(); everything else goes through the size loop.
SizeTargeted == ~(outputType = "mp3" \/ quality # "compressed")

\* One export-video invocation: its sender, whether it is a size-targeted
\* video export, where it stands, the encode passes started, the retries of
\* the size loop, and its result. For the record: whether cancel-export was
\* invoked by its sender before it settled, whether a pass of it was killed
\* by cancel-export, whether a pass that cancel-export had not killed ended
\* with an error, whether a pass ended with an error that was not taken for a
\* cancellation, and whether, when it was invoked, its sender had no other
\* export unsettled and had an earlier export canceled.  For a size-targeted
\* export also the video bitrate of each pass started, for each pass that
\* ended normally whether its output was over the target, and what is at
\* outputPath (a process that fails after it has started leaves a partial
\* file).  For every export the plan each pass started was built with,
\* and its jobId argument: the renderer makes a new token for each call, the
\* n-th call carries the n-th token.  And where the external process of each
\* pass stands: starting, running, killed (the signal is sent, the process
\* has not gone yet), ended or failed; and whether an error of a pass that
\* cancel-export had not killed, with a message that does not read as a
\* cancellation, was taken for one because the sender was in canceledExports.
NewJob(s, sized) ==
    [session |-> s, sized |-> sized, phase |-> "probe", pass |-> 0,
     attempts |-> 0, res |-> "pending", cancelReq |-> FALSE,
     videoBitrateKbps |-> 0, rates |-> <<>>, ends |-> <<>>, output |-> "none",
     killed |-> FALSE, engineErr |-> FALSE, plainErr |-> FALSE,
     plans |-> <<>>, jobId |-> Len(jobs) + 1, procs |-> <<>>,
     byFlag |-> FALSE,
     alone |-> \A k \in DOMAIN jobs :
                  jobs[k].session = s => jobs[k].res # "pending",
     afterCancel |-> \E k \in DOMAIN jobs :
                  jobs[k].session = s /\ jobs[k].res = "canceled" /\ jobs[k].killed]

\* ipcMain.handle('export-video'), up to the await of the ffprobe promise.
ExportVideo(s, sized) ==
    /\ Len(jobs) < MaxJobs
    /\ jobs' = Append(jobs, NewJob(s, sized))
    /\ UNCHANGED <<activeExports, canceledExports, targetSizeMB, duration>>
    /\ UNCHANGED <<cacheVars, otherVars>>

\* encodeOnce(...) has been called: the command is built and run() is under way.
Spawned(js, j) ==
    [js EXCEPT ![j].phase = "spawned", ![j].pass = @ + 1,
               ![j].plans = Append(@, encodePlan),
               ![j].procs = Append(@, "starting")]

\* A pass of a size-targeted export is started at the given bitrate.
SpawnedAt(js, j, kbps) ==
    [Spawned(js, j) EXCEPT ![j].videoBitrateKbps = kbps,
                           ![j].rates = Append(@, kbps)]

\* The ffprobe callback of the export: the plan is built and the first (or
\* only) encode pass is started.
ExportProbed(j) ==
    /\ j \in DOMAIN jobs
    /\ jobs[j].phase = "probe"
    /\ jobs' = IF jobs[j].sized THEN SpawnedAt(jobs, j, FirstBitrate)
                                ELSE Spawned(jobs, j)
    /\ UNCHANGED <<activeExports, canceledExports, targetSizeMB, duration>>
    /\ UNCHANGED <<cacheVars, otherVars>>

\* The 'start' event of the running command of job j.
ProcStart(j) ==
    /\ j \in DOMAIN jobs
    /\ jobs[j].phase = "spawned"
    /\ jobs' = [jobs EXCEPT ![j].phase = "running",
                            ![j].procs[jobs[j].pass] = "running"]
    /\ activeExports' = [activeExports EXCEPT ![jobs[j].session] = <<j, jobs[j].pass>>]
    /\ UNCHANGED <<canceledExports, targetSizeMB, duration>>
    /\ UNCHANGED <<cacheVars, otherVars>>

\* The handler resumes after a pass has resolved with outputPath; `over`
\* tells whether the output file is larger than the target.
\* A faulty loop condition that allows a third retry.
AfterPassOneMore(js, j, over) ==
    IF js[j].sized /\ over /\ js[j].attempts < 3
    THEN [SpawnedAt(js, j, RetryBitrate(js[j].videoBitrateKbps))
             EXCEPT ![j].attempts = @ + 1, ![j].output = "none"]
    ELSE [js EXCEPT ![j].phase = "done", ![j].res = "ok"]

\* A faulty loop that gives up with an error, and removes the output, when
\* the retries are used up and the output is still over the target.
AfterPassStrict(js, j, over) ==
    IF js[j].sized /\ over /\ js[j].attempts < 2
    THEN [SpawnedAt(js, j, RetryBitrate(js[j].videoBitrateKbps))
             EXCEPT ![j].attempts = @ + 1, ![j].output = "none"]
    ELSE IF js[j].sized /\ over
         THEN [js EXCEPT ![j].phase = "done", ![j].res = "failed",
                         ![j].output = "none"]
         ELSE [js EXCEPT ![j].phase = "done", ![j].res = "ok"]

\* A faulty loop that starts the retry without waiting for it: the handler
\* returns outputPath while the retry runs.
AfterPassNoAwait(js, j, over) ==
    IF js[j].sized /\ over /\ js[j].attempts < 2
    THEN [SpawnedAt(js, j, RetryBitrate(js[j].videoBitrateKbps))
             EXCEPT ![j].attempts = @ + 1, ![j].output = "none",
                    ![j].res = "ok"]
    ELSE [js EXCEPT ![j].phase = "done", ![j].res = "ok"]

\* A retry unlinks the previous output before it encodes again.
AfterPass(js, j, over) ==
    IF js[j].sized /\ over /\ js[j].attempts < 2
    THEN [SpawnedAt(js, j, RetryBitrate(js[j].videoBitrateKbps))
             EXCEPT ![j].attempts = @ + 1, ![j].output = "none"]
    ELSE [js EXCEPT ![j].phase = "done", ![j].res = "ok"]

\* The engine has written the output file of a pass of job j; the handler
\* looks at its size for a size-targeted export only.
Written(js, j, over) ==
    IF js[j].sized
    THEN [js EXCEPT ![j].output = IF over THEN "over" ELSE "under",
                    ![j].ends = Append(@, over)]
    ELSE [js EXCEPT ![j].output = "written"]

\* The process of the current pass of job j has gone.
Exited(js, j, how) == [js EXCEPT ![j].procs[js[j].pass] = how]

\* The 'end' event of the command of job j, and the handler's continuation.
ProcEnd(j, over) ==
    /\ j \in DOMAIN jobs
    /\ jobs[j].phase \in {"running", "exited"}
    /\ activeExports' = [activeExports EXCEPT ![jobs[j].session] = NoCmd]
    /\ jobs' = AfterPass(Written(Exited(jobs, j, "ended"), j, over), j, over)
    /\ UNCHANGED <<canceledExports, targetSizeMB, duration>>
    /\ UNCHANGED <<cacheVars, otherVars>>

\* The handler resumes after a pass has rejected: the first encode is awaited
\* outside the try block, a retry inside it, where the catch logs a warning
\* and the handler goes on to `return outputPath`.
AfterReject(j) == IF jobs[j].pass > 1 THEN "ok" ELSE "failed"

\* A faulty handler that takes a canceled pass for one that ended over the
\* target: it removes the output and, if retries are left, encodes again.
AfterCanceledRetry(js, j) ==
    IF js[j].sized /\ js[j].attempts < 2
    THEN [SpawnedAt(js, j, RetryBitrate(js[j].videoBitrateKbps))
             EXCEPT ![j].attempts = @ + 1, ![j].output = "none"]
    ELSE [js EXCEPT ![j].res = "canceled"]

\* The handler resumes after a pass has resolved as canceled: it returns that
\* result, from the first encode and from a retry alike.
AfterCanceled(js, j) == [js EXCEPT ![j].res = "canceled"]

\* The 'error' event of the command of job j, and the handler's continuation.
\* A command that fails before it has started was never registered and has
\* no process a signal could end; one that cancel-export has killed reports
\* the signal.
ProcError(j, msg) ==
    /\ j \in DOMAIN jobs
    /\ jobs[j].phase \in {"spawned", "running", "killed", "exited"}
    /\ jobs[j].phase = "killed" => msg = KillMessage
    /\ jobs[j].phase = "spawned" => msg = ExitMessage
    /\ LET senderId == jobs[j].session
           ended == [Exited(jobs, j, "failed")
                        EXCEPT ![j].phase = "done",
                               ![j].engineErr = jobs[j].phase # "killed",
                               ![j].output = IF jobs[j].phase = "spawned"
                                             THEN @ ELSE "partial"]
       IN  /\ activeExports' = [activeExports EXCEPT ![senderId] = NoCmd]
           /\ IF WasCanceled(senderId, msg)
              THEN /\ canceledExports' = canceledExports \ {senderId}
                   /\ jobs' = [AfterCanceled(ended, j) EXCEPT
                                  ![j].byFlag = /\ jobs[j].phase # "killed"
                                                /\ ~MatchesCancelPattern(msg)]
              ELSE /\ jobs' = [ended EXCEPT ![j].plainErr = TRUE,
                                            ![j].res = AfterReject(j)]
                   /\ UNCHANGED canceledExports
    /\ UNCHANGED <<targetSizeMB, duration>>
    /\ UNCHANGED <<cacheVars, otherVars>>

\* ipcMain.handle('cancel-export').
CancelExport(s) ==
    /\ \E j \in DOMAIN jobs : jobs[j].session = s /\ jobs[j].res = "pending"
    /\ LET cmd == activeExports[s]
           noted == [j \in DOMAIN jobs |->
                        IF jobs[j].session = s /\ jobs[j].res = "pending"
                        THEN [jobs[j] EXCEPT !.cancelReq = TRUE] ELSE jobs[j]]
       IN  IF cmd # NoCmd
           THEN /\ canceledExports' = canceledExports \cup {s}
                /\ jobs' = [noted EXCEPT ![cmd[1]].phase = "killed",
                                         ![cmd[1]].killed = TRUE,
                                         ![cmd[1]].procs[cmd[2]] = "killed"]
                /\ activeExports' = [activeExports EXCEPT ![s] = NoCmd]
           ELSE /\ jobs' = noted
                /\ UNCHANGED <<activeExports, canceledExports>>
    /\ UNCHANGED <<targetSizeMB, duration>>
    /\ UNCHANGED <<cacheVars, otherVars>>

\* ipcMain.handle('cancel-export') when the registered process has already
\* exited and its 'end' or 'error' event is still to come: the sender is
\* flagged, the signal reaches nothing, the registration is deleted.
CancelExportLate(s) ==
    /\ activeExports[s] # NoCmd
    /\ jobs[activeExports[s][1]].phase = "running"
    /\ canceledExports' = canceledExports \cup {s}
    /\ activeExports' = [activeExports EXCEPT ![s] = NoCmd]
    /\ jobs' = [[j \in DOMAIN jobs |->
                   IF jobs[j].session = s /\ jobs[j].res = "pending"
                   THEN [jobs[j] EXCEPT !.cancelReq = TRUE] ELSE jobs[j]]
                     EXCEPT ![activeExports[s][1]].phase = "exited"]
    /\ UNCHANGED <<targetSizeMB, duration>>
    /\ UNCHANGED <<cacheVars, otherVars>>

\* ------------------------------------------------------------ export panel
\* The export panel of the renderer: isProcessing, hasProcessed, exportStatus
\* and processedVideoPath (the token of the job whose output is shown, 0 for
\* null); for every handleExport() call, by token, whether it still awaits
\* api.exportVideo and the state of the 5 s timer of its catch block; whether
\* a restart effect is between its cancel and its handleExport(); and, for
\* the record, the token of the call that set the status.
NewPanel ==
    [isProcessing |-> FALSE, hasProcessed |-> FALSE, exportStatus |-> "",
     statusOf |-> 0, processedVideoPath |-> 0, restart |-> "none",
     calls |-> <<>>, timers |-> <<>>]

\* handleExport() up to the await of api.exportVideo, the panel being p: a
\* new token becomes the current one and the panel shows the placeholder.
StartExport(p) ==
    /\ exportTokenRef' = exportTokenRef + 1
    /\ panel' = [p EXCEPT !.isProcessing = TRUE, !.hasProcessed = FALSE,
                          !.exportStatus = "processing",
                          !.statusOf = exportTokenRef + 1,
                          !.processedVideoPath = 0,
                          !.calls = Append(@, "awaiting"),
                          !.timers = Append(@, "none")]

\* ---------------------------------------------------------------- progress
\* ExportPanel.handleExport(), up to the await of api.exportVideo: a new
\* token becomes the current one and the export is requested with it.
handleExport ==
    /\ exportTokenRef < MaxJobs
    /\ panel.restart = "none"
    /\ StartExport(panel)
    /\ UNCHANGED progressEvents
    /\ UNCHANGED <<cacheVars, exportVars, queueVars, watchVars, planVars>>

\* A faulty tag: the token of the newest export, whichever pass reports.
TagOfNewest(j) == Len(jobs)

\* The token a pass of job j puts on a progress report: the jobId argument
\* of the call it runs in.
Tag(j) == jobs[j].jobId

\* The 'progress' event of the running command of job j: with a window the
\* report is sent on, tagged; without one nothing is sent.  For the record:
\* the job and the pass that produced it.
ProcProgress(j) ==
    /\ j \in DOMAIN jobs
    /\ jobs[j].phase \in {"running", "killed"}
    /\ Len(progressEvents) < MaxProgress
    /\ progressEvents' =
          IF mainWindow
          THEN Append(progressEvents,
                      [jobId |-> Tag(j), job |-> j, pass |-> jobs[j].pass,
                       seen |-> "sent", current |-> 0])
          ELSE progressEvents
    /\ UNCHANGED <<exportTokenRef, panel>>
    /\ UNCHANGED <<cacheVars, exportVars, queueVars, watchVars, planVars>>

\* progressListener: if (!progress || progress.jobId !== exportTokenRef.current) return
Applies(progress) == progress.jobId = exportTokenRef

\* Report k reaches the renderer, where the listeners of the handleExport()
\* calls that have not finished run: every one of them compares the report's
\* token with the current one.  With no call unfinished nobody listens.
ProgressListener(k, subscribed) ==
    /\ k \in DOMAIN progressEvents
    /\ progressEvents[k].seen = "sent"
    /\ \A i \in 1..(k - 1) : progressEvents[i].seen # "sent"
    /\ (\E j \in DOMAIN jobs : jobs[j].res = "pending") => subscribed
    /\ Len(jobs) < exportTokenRef => subscribed
    /\ progressEvents' =
          [progressEvents EXCEPT
              ![k].seen = IF ~subscribed THEN "unheard"
                          ELSE IF Applies(progressEvents[k]) THEN "applied"
                          ELSE "ignored",
              ![k].current = exportTokenRef]
    /\ UNCHANGED <<exportTokenRef, panel>>
    /\ UNCHANGED <<cacheVars, exportVars, queueVars, watchVars, planVars>>

\* ------------------------------------------------- export panel, continued
\* The effect that restarts the export when an option changes, up to its
\* await of api.cancelExport(): with a job in progress the placeholder is
\* shown and the cancel is sent; otherwise handleExport() is called at once.
restartExport ==
    /\ exportTokenRef > 0
    /\ exportTokenRef < MaxJobs
    /\ panel.restart = "none"
    /\ IF panel.isProcessing
       THEN /\ panel' = [panel EXCEPT !.exportStatus = "updating",
                                      !.statusOf = exportTokenRef,
                                      !.hasProcessed = FALSE,
                                      !.processedVideoPath = 0,
                                      !.isProcessing = TRUE,
                                      !.restart = "canceling"]
            /\ UNCHANGED exportTokenRef
       ELSE StartExport(panel)
    /\ UNCHANGED progressEvents
    /\ UNCHANGED <<cacheVars, exportVars, queueVars, watchVars, planVars>>

\* Nothing is left for the cancel the renderer has sent to do: every export
\* of the sender that has not returned has been reached by it.
CancelHandled(s) ==
    /\ Len(jobs) = exportTokenRef
    /\ \A j \in DOMAIN jobs :
           (jobs[j].session = s /\ jobs[j].res = "pending") => jobs[j].cancelReq

\* The cancel of the restart effect is on its way to the main process, behind
\* the export requests sent before it.
CancelSent(s) ==
    /\ panel.restart = "canceling"
    /\ Len(jobs) = exportTokenRef
    /\ ~CancelHandled(s)

\* The replies of the main process arrive in the order they were sent: an
\* export that had returned before the cancel was handled has resumed its
\* handleExport() call before api.cancelExport() returns.
EarlierReturned(s) ==
    \A j \in DOMAIN jobs :
        (jobs[j].session = s /\ jobs[j].res # "pending" /\ ~jobs[j].cancelReq) =>
            panel.calls[j] = "returned"

\* setTimeout(() => handleExport(), 50) of the restart effect, set once
\* api.cancelExport() has returned.
restartTimer(s) ==
    /\ panel.restart = "canceling"
    /\ CancelHandled(s)
    /\ EarlierReturned(s)
    /\ StartExport([panel EXCEPT !.restart = "none"])
    /\ UNCHANGED progressEvents
    /\ UNCHANGED <<cacheVars, exportVars, queueVars, watchVars, planVars>>

\* if (token === exportTokenRef.current)
IsCurrent(token) == token = exportTokenRef

\* handleExport() call `token` resumes after `await api.exportVideo(...)`
\* with the outcome of its export: a path (the preview is generated and the
\* output shown if the token is still the current one), the canceled result
\* (thrown and swallowed by the catch block), or a rejection (the catch block
\* shows the failure and arms a 5 s timer).
exportReturned(token) ==
    /\ token \in DOMAIN panel.calls
    /\ panel.calls[token] = "awaiting"
    /\ token \in DOMAIN jobs
    /\ jobs[token].res # "pending"
    /\ LET p == [panel EXCEPT !.calls[token] = "returned"]
       IN  panel' =
              IF jobs[token].res = "ok"
              THEN IF IsCurrent(token)
                   THEN [p EXCEPT !.processedVideoPath = token,
                                  !.exportStatus = "ready", !.statusOf = token,
                                  !.hasProcessed = TRUE, !.isProcessing = FALSE]
                   ELSE p
              ELSE IF jobs[token].res = "canceled"
              THEN p
              ELSE [p EXCEPT !.exportStatus = "failed", !.statusOf = token,
                             !.timers[token] = "armed"]
    /\ UNCHANGED <<exportTokenRef, progressEvents>>
    /\ UNCHANGED <<cacheVars, exportVars, queueVars, watchVars, planVars>>

\* The 5 s timer of the catch block of call `token` fires.
failedTimer(token) ==
    /\ token \in DOMAIN panel.timers
    /\ panel.timers[token] = "armed"
    /\ panel' = [panel EXCEPT !.timers[token] = "fired",
                              !.isProcessing = FALSE,
                              !.exportStatus = "", !.statusOf = 0]
    /\ UNCHANGED <<exportTokenRef, progressEvents>>
    /\ UNCHANGED <<cacheVars, exportVars, queueVars, watchVars, planVars>>

\* -------------------------------------------------------------- AsyncQueue
\* One action is one synchronous run of the queue's code: add() with the run
\* it may start, or the continuation of run() after `await task()` (resolve
\* or reject, the finally block and the next() it calls).  A task given to
\* add() either returns a promise that settles later or throws at once.

\* this.concurrency = Math.max(1, Math.floor(concurrency))
Limit(c) == Max(1, c)

\* A task as submitted: whether it throws when called, and, for the record,
\* whether add() put it in the queue.
NewQTask(throws) == [st |-> "waiting", throws |-> throws, queued |-> FALSE]

\* The queue object together with its tasks.
Queue == [running |-> running, queue |-> queue, tasks |-> qtasks, log |-> startLog]

\* A faulty limit test that lets one task too many in.
HasSlotOffByOne(q) == q.running <= concurrency

\* this.running < this.concurrency
HasSlot(q) == q.running < concurrency

\* A faulty next() that takes the newest waiting job.
DequeueLast(q) ==
    <<q.queue[Len(q.queue)],
      [q EXCEPT !.queue = SubSeq(@, 1, Len(@) - 1)]>>

\* const job = this.queue.shift()
Dequeue(q) == <<Head(q.queue), [q EXCEPT !.queue = Tail(@)]>>

RECURSIVE next(_)

\* A faulty run() that frees the slot on success only.
finallyOnSuccess(q, ok) == IF ok THEN next([q EXCEPT !.running = @ - 1]) ELSE q

\* A faulty run() that frees the slot and does not call next().
finallyNoNext(q, ok) == [q EXCEPT !.running = @ - 1]

\* finally { this.running--; this.next(); }
finally(q, ok) == next([q EXCEPT !.running = @ - 1])

\* run(): count the task in and call it; a task that throws at once is
\* rejected and counted out in the same run.
run(q, t) ==
    LET started == [q EXCEPT !.running = @ + 1, !.log = Append(@, t)]
    IN  IF q.tasks[t].throws
        THEN finally([started EXCEPT !.tasks[t].st = "rejected"], FALSE)
        ELSE [started EXCEPT !.tasks[t].st = "running"]

\* A faulty next() that starts a waiting job only when nothing runs.
nextWhenIdle(q) ==
    IF q.running > 0 \/ q.queue = <<>>
    THEN q
    ELSE LET d == Dequeue(q) IN run(d[2], d[1])

\* next()
next(q) ==
    IF ~HasSlot(q) \/ q.queue = <<>>
    THEN q
    ELSE LET d == Dequeue(q) IN run(d[2], d[1])

\* The queue object is left as q.
Becomes(q) ==
    /\ running' = q.running
    /\ queue' = q.queue
    /\ qtasks' = q.tasks
    /\ startLog' = q.log
    /\ UNCHANGED concurrency

\* add(task)
add(throws) ==
    /\ Len(qtasks) < MaxTasks
    /\ LET t == Len(qtasks) + 1
           q == [Queue EXCEPT !.tasks = Append(@, NewQTask(throws))]
       IN  Becomes(IF HasSlot(q)
                   THEN run(q, t)
                   ELSE [q EXCEPT !.queue = Append(@, t), !.tasks[t].queued = TRUE])
    /\ UNCHANGED <<cacheVars, exportVars, watchVars, planVars, progressVars>>

\* The promise of task t settles and run() resumes after its await.
settle(t, ok) ==
    /\ t \in DOMAIN qtasks
    /\ qtasks[t].st = "running"
    /\ Becomes(finally([Queue EXCEPT !.tasks[t].st =
                            IF ok THEN "resolved" ELSE "rejected"], ok))
    /\ UNCHANGED <<cacheVars, exportVars, watchVars, planVars, progressVars>>

\* ------------------------------------------------------------ folder watch
\* One root folder is watched.  A change to a file under it reaches the
\* fs.watch callback of the registered watcher in the step of the change; the
\* platform may also repeat a notification.  Time passes in ticks, and a timer
\* fires no earlier than DebounceTicks ticks after it was armed.
WatchFiles == {"clip.mp4", "notes.txt"}
extname(f) == IF f = "clip.mp4" THEN ".mp4" ELSE ".txt"
videoExtensions == {".mp4", ".avi", ".mov", ".mkv", ".webm", ".flv", ".wmv"}
VideoFiles == {f \in WatchFiles : extname(f) \in videoExtensions}

\* A faulty scan that skips the files that are still empty.
scanNonEmptyFiles == {f \in VideoFiles : fsState[f] = "full"}

\* scanExistingFiles(folderPath): every video file found, whatever its size.
scanExistingFiles == {f \in VideoFiles : fsState[f] # "absent"}

\* A watch as started: its existingFiles and debounceTimers and, for the
\* record, the baseline it scanned with the appearance and the state each
\* file was in.
NewWatch ==
    [existingFiles |-> scanExistingFiles,
     debounceTimers |-> [f \in VideoFiles |-> 0],
     baseline |-> {f \in VideoFiles : fsState[f] # "absent"}, baseEpoch |-> epoch,
     baseState |-> fsState]

\* ipcMain.handle('watch-folder'); a call for a folder already watched returns
\* at once.
WatchFolder ==
    /\ folderWatchers = 0
    /\ Len(watches) < MaxWatches
    /\ watches' = Append(watches, NewWatch)
    /\ folderWatchers' = Len(watches) + 1
    /\ UNCHANGED <<fsState, epoch, fsEvents, sinceNote, timers, evals, mainWindow>>
    /\ UNCHANGED <<cacheVars, exportVars, queueVars, planVars, progressVars>>

\* ipcMain.handle('unwatch-folder'): the watcher is closed and forgotten.
UnwatchFolder ==
    /\ folderWatchers # 0
    /\ folderWatchers' = 0
    /\ UNCHANGED <<fsState, epoch, fsEvents, sinceNote, watches, timers, evals, mainWindow>>
    /\ UNCHANGED <<cacheVars, exportVars, queueVars, planVars, progressVars>>

\* clearTimeout(id)
clearTimeout(ts, id) ==
    [ts EXCEPT ![id].st = IF @ = "pending" THEN "cleared" ELSE @]

\* const existingTimer = debounceTimers.get(fullPath);
\* if (existingTimer) clearTimeout(existingTimer)
ClearExisting(ts, id) == IF id # 0 THEN clearTimeout(ts, id) ELSE ts

\* setTimeout(..., 500) by watch w for file f.
NewTimer(w, f) ==
    [watch |-> w, path |-> f, rem |-> DebounceTicks, st |-> "pending",
     gap |-> sinceNote[f]]

\* The fs.watch callback of the registered watcher for file f.
WatcherCallback(f) ==
    IF folderWatchers = 0 \/ extname(f) \notin videoExtensions
    THEN UNCHANGED <<watches, timers, sinceNote>>
    ELSE LET w == folderWatchers
             existingTimer == watches[w].debounceTimers[f]
         IN  /\ timers' = Append(ClearExisting(timers, existingTimer), NewTimer(w, f))
             /\ watches' = [watches EXCEPT ![w].debounceTimers[f] = Len(timers) + 1]
             /\ sinceNote' = [sinceNote EXCEPT ![f] = 0]

\* A file-system change to video file f, and the notification it raises.
FsChange(f, to) ==
    /\ fsEvents < MaxFsEvents
    /\ fsEvents' = fsEvents + 1
    /\ fsState' = [fsState EXCEPT ![f] = to]
    /\ epoch' = [epoch EXCEPT ![f] = IF fsState[f] = "absent" THEN @ + 1 ELSE @]
    /\ WatcherCallback(f)
    /\ UNCHANGED <<folderWatchers, evals, mainWindow>>
    /\ UNCHANGED <<cacheVars, exportVars, queueVars, planVars, progressVars>>

\* A file appears, empty (still to be written) or with content.
CreateFile(f, to) ==
    /\ fsState[f] = "absent"
    /\ to \in {"empty", "full"}
    /\ FsChange(f, to)

\* Content is written to a file that is there.
WriteFile(f) ==
    /\ fsState[f] # "absent"
    /\ FsChange(f, "full")

\* A file is removed.
DeleteFile(f) ==
    /\ fsState[f] # "absent"
    /\ FsChange(f, "absent")

\* A raw notification for a file under the root with no change behind it (a
\* repeated event, or an event for a file that is not a video).
Notify(f) ==
    /\ fsEvents < MaxFsEvents
    /\ folderWatchers # 0
    /\ fsEvents' = fsEvents + 1
    /\ WatcherCallback(f)
    /\ UNCHANGED <<fsState, epoch, folderWatchers, evals, mainWindow>>
    /\ UNCHANGED <<cacheVars, exportVars, queueVars, planVars, progressVars>>

\* A quarter of a second passes.
Tick ==
    /\ \/ \E t \in DOMAIN timers : timers[t].st = "pending" /\ timers[t].rem > 0
       \/ \E f \in VideoFiles : sinceNote[f] < DebounceTicks
    /\ timers' = [t \in DOMAIN timers |->
                     IF timers[t].st = "pending" /\ timers[t].rem > 0
                     THEN [timers[t] EXCEPT !.rem = @ - 1] ELSE timers[t]]
    /\ sinceNote' = [f \in VideoFiles |->
                        IF sinceNote[f] < DebounceTicks THEN sinceNote[f] + 1
                        ELSE sinceNote[f]]
    /\ UNCHANGED <<fsState, epoch, fsEvents, folderWatchers, watches, evals, mainWindow>>
    /\ UNCHANGED <<cacheVars, exportVars, queueVars, planVars, progressVars>>

\* A faulty callback that does not look at the size.
VerdictAnySize(fileExists, hasSize, wasTracked) ==
    IF fileExists /\ ~wasTracked THEN "file-added"
    ELSE IF ~fileExists /\ wasTracked THEN "file-removed" ELSE "none"

\* What the timer callback decides for a file that exists or not, has
\* content or not, and was tracked or not.
Verdict(fileExists, hasSize, wasTracked) ==
    IF fileExists /\ ~wasTracked
    THEN IF hasSize THEN "file-added" ELSE "none"
    ELSE IF ~fileExists /\ wasTracked THEN "file-removed" ELSE "none"

\* existingFiles after the timer callback.
Tracked(existingFiles, f, verdict) ==
    IF verdict = "file-added" THEN existingFiles \cup {f}
    ELSE IF verdict = "file-removed" THEN existingFiles \ {f}
    ELSE existingFiles

\* The callback of debounce timer t.
TimerFire(t) ==
    /\ t \in DOMAIN timers
    /\ timers[t].st = "pending"
    /\ timers[t].rem = 0
    /\ LET w == timers[t].watch
           f == timers[t].path
           fileExists == fsState[f] # "absent"
           wasTracked == f \in watches[w].existingFiles
           verdict == Verdict(fileExists, fsState[f] = "full", wasTracked)
       IN  /\ timers' = [timers EXCEPT ![t].st = "fired"]
           /\ watches' = [watches EXCEPT
                  ![w].debounceTimers[f] = 0,
                  ![w].existingFiles = Tracked(@, f, verdict)]
           /\ evals' = Append(evals,
                  [watch |-> w, path |-> f, timer |-> t, state |-> fsState[f],
                   wasTracked |-> wasTracked, epoch |-> epoch[f],
                   tracked |-> f \in Tracked(watches[w].existingFiles, f, verdict),
                   quiet |-> sinceNote[f], live |-> folderWatchers = w,
                   unsent |-> verdict # "none" /\ ~mainWindow,
                   sent |-> IF mainWindow THEN verdict ELSE "none"])
    /\ UNCHANGED <<fsState, epoch, fsEvents, sinceNote, folderWatchers, mainWindow>>
    /\ UNCHANGED <<cacheVars, exportVars, queueVars, planVars, progressVars>>

\* mainWindow.on('closed')
WindowClosed ==
    /\ mainWindow
    /\ mainWindow' = FALSE
    /\ UNCHANGED <<fsState, epoch, fsEvents, sinceNote, folderWatchers, watches, timers, evals>>
    /\ UNCHANGED <<cacheVars, exportVars, queueVars, planVars, progressVars>>

\* app.on('activate') with no window open.
createWindow ==
    /\ ~mainWindow
    /\ mainWindow' = TRUE
    /\ UNCHANGED <<fsState, epoch, fsEvents, sinceNote, folderWatchers, watches, timers, evals>>
    /\ UNCHANGED <<cacheVars, exportVars, queueVars, planVars, progressVars>>

\* ------------------------------------------------------------------ specs
\* The caches as the process finds them when it starts: nothing in memory,
\* and on disk, for the artefact kind exercised, what an earlier run has left
\* (each file in one of the given states).
CacheFound(kinds, streams, found) ==
    /\ focus \in kinds
    /\ fileStat = [p \in Paths |-> 0]
    /\ numStreams \in [Paths -> streams]
    /\ metadataMemoryCache = [p \in Paths |-> NoKey]
    /\ metaFiles \in [Keys -> IF focus = "meta" THEN found ELSE {"absent"}]
    /\ metaTasks = [k \in Keys |-> 0]
    /\ thumbFiles \in [Keys -> IF focus = "thumb" THEN found ELSE {"absent"}]
    /\ thumbTasks = [k \in Keys |-> 0]
    /\ audioDir \in [Keys -> [TrackIds -> IF focus = "audio" THEN found ELSE {"absent"}]]
    /\ audioExtractTasks = [k \in Keys |-> 0]
    /\ tasks = <<>>
    /\ calls = <<>>

\* The caches with nothing on disk.
CacheStart(kinds, streams) ==
    /\ focus \in kinds
    /\ fileStat = [p \in Paths |-> 0]
    /\ numStreams \in [Paths -> streams]
    /\ metadataMemoryCache = [p \in Paths |-> NoKey]
    /\ metaFiles = NoFiles
    /\ metaTasks = [k \in Keys |-> 0]
    /\ thumbFiles = NoFiles
    /\ thumbTasks = [k \in Keys |-> 0]
    /\ audioDir = [k \in Keys |-> EmptyDir]
    /\ audioExtractTasks = [k \in Keys |-> 0]
    /\ tasks = <<>>
    /\ calls = <<>>

\* The arguments of the exports that shape their plans: the audio streams of
\* the source, the volume given for each (or none), the mixing mode, the
\* output type and the quality.
PlanStart(counts, modes, types, qualities) ==
    /\ numAudioStreams \in counts
    /\ audioTracks \in [0..(numAudioStreams - 1) -> Volumes \cup {NoVolume}]
    /\ audioMode \in modes
    /\ outputType \in types
    /\ quality \in qualities

\* One stream at volume 1.0, combined, into a compressed video.
PlainPlan ==
    PlanStart({1}, {"combine"}, {"video"}, {"compressed"}) /\ audioTracks[0] = 100

\* No export requested yet, nothing reported.
ProgressStart ==
    /\ exportTokenRef = 0
    /\ progressEvents = <<>>
    /\ panel = NewPanel

ExportStart(sizes, durations) ==
    /\ targetSizeMB \in sizes
    /\ duration \in durations
    /\ activeExports = [s \in Sessions |-> NoCmd]
    /\ canceledExports = {}
    /\ jobs = <<>>

\* createQueue(c) for the limits given.
QueueStart(limits) ==
    /\ concurrency \in {Limit(c) : c \in limits}
    /\ running = 0
    /\ queue = <<>>
    /\ qtasks = <<>>
    /\ startLog = <<>>

\* The root folder as found: each video file absent, empty or with content.
WatchStart(found) ==
    /\ fsState \in [VideoFiles -> found]
    /\ epoch = [f \in VideoFiles |-> IF fsState[f] = "absent" THEN 0 ELSE 1]
    /\ fsEvents = 0
    /\ sinceNote = [f \in VideoFiles |-> DebounceTicks]
    /\ folderWatchers = 0
    /\ watches = <<>>
    /\ timers = <<>>
    /\ evals = <<>>
    /\ mainWindow = TRUE

\* The state after start-up, for runs over the given artefact kinds, stream
\* counts, size targets and trim durations.
Start(kinds, streams, sizes, durations) ==
    /\ CacheStart(kinds, streams)
    /\ ExportStart(sizes, durations)
    /\ QueueStart({6})
    /\ WatchStart({"absent"})
    /\ PlainPlan
    /\ ProgressStart

Init == Start(Kinds, StreamCounts, {0}, {60})

AudioNext ==
    \/ \E p \in Paths, f \in BOOLEAN : GetCachedExtractedAudio(p, f)
    \/ \E t \in 1..MaxCalls, ok \in BOOLEAN : AudioProbeDone(t, ok)
    \/ \E t \in 1..MaxCalls, i \in TrackIds : TrackEnd(t, i)
    \/ \E t \in 1..MaxCalls, i \in TrackIds : TrackEndEmpty(t, i)
    \/ \E t \in 1..MaxCalls, i \in TrackIds : TrackError(t, i)
    \/ \E t \in 1..MaxCalls, i \in TrackIds : TrackTimeout(t, i)
    \/ \E p \in Paths : TouchFile(p)

CacheNext ==
    \/ \E p \in Paths : GetCachedMetadata(p)
    \/ \E t \in 1..MaxCalls, ok \in BOOLEAN : MetaProbeDone(t, ok)
    \/ \E p \in Paths : GetCachedThumbnail(p)
    \/ \E t \in 1..MaxCalls, ok \in BOOLEAN : ThumbDone(t, ok)
    \/ AudioNext

Next == CacheNext

\* Every artefact kind, one per run.
Spec == Init /\ [][Next]_vars

ExportNext ==
    \/ \E s \in Sessions : ExportVideo(s, SizeTargeted)
    \/ \E j \in 1..MaxJobs : ExportProbed(j)
    \/ \E j \in 1..MaxJobs : ProcStart(j)
    \/ \E j \in 1..MaxJobs, over \in BOOLEAN : ProcEnd(j, over)
    \/ \E j \in 1..MaxJobs, msg \in Messages : ProcError(j, msg)
    \/ \E s \in Sessions : CancelExport(s)
    \/ \E s \in Sessions : CancelExportLate(s)

\* The export pipeline alone.
InitExport ==
    /\ CacheStart({"meta"}, {0})
    /\ ExportStart({0}, {60})
    /\ QueueStart({6})
    /\ WatchStart({"absent"})
    /\ PlanStart({1}, {"combine"}, {"video"}, Qualities)
    /\ audioTracks[0] = 100
    /\ ProgressStart
SpecExport == InitExport /\ [][ExportNext]_vars

\* One size-targeted export, over the size targets and trim durations.
SizeNext ==
    \/ ExportVideo(1, TRUE) /\ jobs = <<>>
    \/ ExportProbed(1)
    \/ ProcStart(1)
    \/ \E over \in BOOLEAN : ProcEnd(1, over)
    \/ \E msg \in Messages : ProcError(1, msg)
    \/ CancelExport(1)

InitSize == Start({"meta"}, {0}, TargetSizesMB, Durations)
SpecSize == InitSize /\ [][SizeNext]_vars

\* One export, over the sources, volumes, mixing modes, output types and
\* qualities.
PlanNext ==
    \/ ExportVideo(1, SizeTargeted) /\ jobs = <<>>
    \/ ExportProbed(1)
    \/ ProcStart(1)
    \/ \E over \in BOOLEAN : ProcEnd(1, over)
    \/ \E msg \in Messages : ProcError(1, msg)
    \/ CancelExport(1)

InitPlan ==
    /\ CacheStart({"meta"}, {0})
    /\ ExportStart({0, 1}, {60})
    /\ QueueStart({6})
    /\ WatchStart({"absent"})
    /\ PlanStart(0..MaxAudioStreams, AudioModes, OutputTypes, Qualities)
    /\ ProgressStart
SpecPlan == InitPlan /\ [][PlanNext]_vars

\* The exports of one renderer with their progress reports.
ProgressNext ==
    \/ handleExport
    \/ \E s \in Sessions : ExportVideo(s, SizeTargeted) /\ Len(jobs) < exportTokenRef
    \/ \E j \in 1..MaxJobs : ExportProbed(j)
    \/ \E j \in 1..MaxJobs : ProcStart(j)
    \/ \E j \in 1..MaxJobs, over \in BOOLEAN : ProcEnd(j, over)
    \/ \E j \in 1..MaxJobs, msg \in Messages : ProcError(j, msg)
    \/ \E s \in Sessions : CancelExport(s)
    \/ \E j \in 1..MaxJobs : ProcProgress(j)
    \/ \E k \in 1..MaxProgress, subscribed \in BOOLEAN : ProgressListener(k, subscribed)

InitProgress == InitExport
SpecProgress == InitProgress /\ [][ProgressNext]_vars

\* The export panel with the exports it requests: handleExport() on mount,
\* the restart effect with its cancel, and the calls' continuations.
PanelNext ==
    \/ handleExport /\ exportTokenRef = 0
    \/ restartExport
    \/ \E s \in Sessions : restartTimer(s)
    \/ \E s \in Sessions : ExportVideo(s, SizeTargeted) /\ Len(jobs) < exportTokenRef
    \/ \E j \in 1..MaxJobs : ExportProbed(j)
    \/ \E j \in 1..MaxJobs : ProcStart(j)
    \/ \E j \in 1..MaxJobs, over \in BOOLEAN : ProcEnd(j, over)
    \/ \E j \in 1..MaxJobs, msg \in Messages : ProcError(j, msg)
    \/ \E s \in Sessions : CancelSent(s) /\ CancelExport(s)
    \/ \E s \in Sessions : CancelSent(s) /\ CancelExportLate(s)
    \/ \E k \in 1..MaxJobs : exportReturned(k)
    \/ \E k \in 1..MaxJobs : failedTimer(k)

InitPanel == InitExport
SpecPanel == InitPanel /\ [][PanelNext]_vars

\* The task queue alone, over the limits given to its constructor.
QueueNext ==
    \/ \E throws \in BOOLEAN : add(throws)
    \/ \E t \in 1..MaxTasks, ok \in BOOLEAN : settle(t, ok)

InitQueue ==
    /\ CacheStart({"meta"}, {0})
    /\ ExportStart({0}, {60})
    /\ QueueStart(0..MaxLimit)
    /\ WatchStart({"absent"})
    /\ PlainPlan
    /\ ProgressStart
SpecQueue == InitQueue /\ [][QueueNext]_vars

\* The task queue with every started task settling in the end.
SpecQueueLive ==
    /\ InitQueue
    /\ [][QueueNext]_vars
    /\ \A t \in 1..MaxTasks : WF_vars(\E ok \in BOOLEAN : settle(t, ok))

\* The folder watch alone.
WatchNext ==
    \/ WatchFolder
    \/ UnwatchFolder
    \/ \E f \in VideoFiles, to \in {"empty", "full"} : CreateFile(f, to)
    \/ \E f \in VideoFiles : WriteFile(f)
    \/ \E f \in VideoFiles : DeleteFile(f)
    \/ \E f \in WatchFiles : Notify(f)
    \/ Tick
    \/ \E t \in 1..MaxFsEvents : TimerFire(t)
    \/ WindowClosed
    \/ createWindow

InitWatch ==
    /\ CacheStart({"meta"}, {0})
    /\ ExportStart({0}, {60})
    /\ QueueStart({6})
    /\ WatchStart({"absent", "empty", "full"})
    /\ PlainPlan
    /\ ProgressStart
SpecWatch == InitWatch /\ [][WatchNext]_vars

\* The caches after a restart, over what the earlier run has left on disk.
InitRestart ==
    /\ CacheFound(Kinds, StreamCounts, FileStates)
    /\ ExportStart({0}, {60})
    /\ QueueStart({6})
    /\ WatchStart({"absent"})
    /\ PlainPlan
    /\ ProgressStart
SpecRestart == InitRestart /\ [][CacheNext]_vars

\* The extracted-audio cache alone.
InitAudio == Init /\ focus = "audio"
SpecAudio == InitAudio /\ [][AudioNext]_vars

\* The extraction with ffprobe calling back and every started track process
\* reporting 'end' or 'error' in the end.
TrackReports(t, i) == TrackEnd(t, i) \/ TrackEndEmpty(t, i) \/ TrackError(t, i)
SpecAudioLive ==
    /\ InitAudio
    /\ [][AudioNext]_vars
    /\ \A t \in 1..MaxAudioCalls : WF_vars(\E ok \in BOOLEAN : AudioProbeDone(t, ok))
    /\ \A t \in 1..MaxAudioCalls, i \in TrackIds : WF_vars(TrackReports(t, i))

\* ================================================================== claims
\* No forceRefresh request for the cache path of invocation j came before j.
NoForceBefore(j) ==
    \A k \in 1..j : calls[k].key = calls[j].key => ~calls[k].force

\* Task t ran the expensive step: ffprobe for metadata, the screenshot for a
\* thumbnail, the per-track extraction for audio.
Generated(t) ==
    IF tasks[t].kind = "audio" THEN tasks[t].tracks # NoTracks ELSE TRUE

\* Invocations i and j asked for the same artefact at the same fingerprint.
SameRequest(i, j) ==
    /\ i < j
    /\ calls[i].kind = calls[j].kind
    /\ calls[i].key = calls[j].key

\* C1: single-flight. Of two invocations for the same cache path, the second
\* arriving while the first still awaits its generation and no forceRefresh
\* being involved, the second awaits the same generation, starts none of its
\* own, and once both have settled they have the same result.
C1_SingleFlight ==
    \A i, j \in DOMAIN calls :
        (SameRequest(i, j) /\ i \in calls[j].open /\ NoForceBefore(j)) =>
            /\ calls[j].task = calls[i].task
            /\ ~calls[j].started
            /\ (calls[i].st # "pending" /\ calls[j].st # "pending") =>
                   (calls[i].st = calls[j].st /\ calls[i].val = calls[j].val)

\* The generations of an audio cache directory whose promise is still pending.
InFlight(key) ==
    {t \in DOMAIN tasks : tasks[t].kind = "audio" /\ tasks[t].key = key
                          /\ tasks[t].res = "pending"}

\* C2: at most one extraction generation is in flight per audio cache
\* directory, and the registry entry of the directory, when present, is the
\* handle of that generation.
C2_OneInFlight ==
    \A key \in Keys :
        /\ Cardinality(InFlight(key)) <= 1
        /\ audioExtractTasks[key] # 0 => InFlight(key) = {audioExtractTasks[key]}

\* C3: fingerprint sensitivity. Every invocation that resolves returns the
\* artefact of the fingerprint the source file had when it was made, never
\* one produced under an earlier fingerprint of the path.
C3_FreshResult ==
    \A j \in DOMAIN calls : calls[j].st = "ok" => calls[j].val = calls[j].key

\* Invocation i had resolved before invocation j, for the same artefact of the
\* unchanged source, arrived.
InSequence(i, j) ==
    /\ SameRequest(i, j)
    /\ calls[i].st = "ok"
    /\ i \notin calls[j].open
    /\ NoForceBefore(j)

\* The second invocation starts no generation.
NoSecondGeneration(j) ==
    IF calls[j].kind = "audio"
    THEN ~Generated(calls[j].task)
    ELSE ~calls[j].started

\* C4: idempotence. The second of two invocations in sequence starts no
\* generation and what it returns is the artefact the first returned.
C4_Idempotent ==
    \A i, j \in DOMAIN calls :
        InSequence(i, j) =>
            /\ NoSecondGeneration(j)
            /\ calls[j].st = "ok" => calls[j].val = calls[i].val

\* The registry of an artefact kind.
Registry(kind) ==
    IF kind = "meta" THEN metaTasks
    ELSE IF kind = "thumb" THEN thumbTasks ELSE audioExtractTasks

C6_AllOrNothing ==
    \A t \in DOMAIN tasks :
        (/\ tasks[t].kind = "audio"
         /\ tasks[t].hasError
         /\ tasks[t].phase = "finished"
         /\ \A u \in DOMAIN tasks : tasks[u].key = tasks[t].key => u = t)
        => audioDir[tasks[t].key] = EmptyDir

\* Job k was invoked after cancel-export had canceled an export of its
\* sender, with no other export of the sender unsettled, and no cancel-export
\* came during it.
Subsequent(k) ==
    jobs[k].afterCancel /\ jobs[k].alone /\ ~jobs[k].cancelReq

\* C7: cancellation is not failure. An export whose running encode pass
\* cancel-export has killed resolves as canceled and does not reject; and a
\* subsequent export of the same sender has its outcome reported as it is:
\* rejected if one of its passes ended with an engine error, resolved with
\* outputPath otherwise.
C7_CancelNotFailure ==
    /\ \A j \in DOMAIN jobs : jobs[j].killed => jobs[j].res \in {"pending", "canceled"}
    /\ \A k \in DOMAIN jobs :
           (Subsequent(k) /\ jobs[k].res # "pending") =>
               jobs[k].res = IF jobs[k].engineErr THEN "failed" ELSE "ok"

\* C8: cancel-export cancels the sender's active job. An export during which
\* its sender invoked cancel-export, at whatever moment before it settled,
\* resolves as canceled.
C8_CancelCancels ==
    \A j \in DOMAIN jobs :
        (jobs[j].cancelReq /\ jobs[j].res # "pending") => jobs[j].res = "canceled"

\* C9: a canceled outcome means a cancel. An export resolves as canceled only
\* if its sender invoked cancel-export during it, and an export one of whose
\* passes ended abnormally with no cancel request rejects.
C9_CanceledOnlyByCancel ==
    \A j \in DOMAIN jobs :
        /\ jobs[j].res = "canceled" => jobs[j].cancelReq
        /\ (jobs[j].engineErr /\ ~jobs[j].cancelReq) => jobs[j].res = "failed"

\* C10: engine errors are surfaced. An export one of whose encode passes, the
\* first or a retry of the size loop, ended with an error that was not matched
\* as a cancellation rejects; it does not return outputPath.
C10_EngineErrorRejects ==
    \A j \in DOMAIN jobs : jobs[j].plainErr => jobs[j].res = "failed"

\* The shape of the size loop of job j apart from the retry bitrate: a pass
\* was started after pass k if and only if pass k ended normally over the
\* target with fewer than 2 retries made; a retry starts with the previous
\* output deleted; no more than 3 passes are made.
LoopShape(j) ==
    /\ jobs[j].pass <= 3
    /\ Len(jobs[j].rates) = jobs[j].pass
    /\ jobs[j].pass >= 1 => jobs[j].attempts = jobs[j].pass - 1
    /\ \A k \in 2..jobs[j].pass :
           Len(jobs[j].ends) >= k - 1 /\ jobs[j].ends[k - 1]
    /\ \A k \in 1..Len(jobs[j].ends) :
           (jobs[j].ends[k] /\ k - 1 < 2) => jobs[j].pass > k
    /\ (jobs[j].pass > 1 /\ jobs[j].phase = "spawned") => jobs[j].output = "none"

\* C11 as stated: the size loop, each retry encoding at 0.85 times the prior
\* bitrate (in whole kbps).
C11_SizeLoopAsClaimed ==
    \A j \in DOMAIN jobs : jobs[j].sized =>
        /\ LoopShape(j)
        /\ \A k \in 2..Len(jobs[j].rates) :
               jobs[j].rates[k] = (jobs[j].rates[k - 1] * 85) \div 100

\* C11, amended: the size loop, each retry encoding at 0.85 times the prior
\* bitrate in whole kbps but never below 100 kbps.
C11_SizeLoop ==
    \A j \in DOMAIN jobs : jobs[j].sized =>
        /\ LoopShape(j)
        /\ \A k \in 2..Len(jobs[j].rates) :
               LET prior == jobs[j].rates[k - 1]
                   rate == jobs[j].rates[k]
               IN  IF prior * 85 < 100 * 100
                   THEN rate = 100
                   ELSE rate * 100 <= prior * 85 /\ prior * 85 < (rate + 1) * 100

\* A size-targeted export has made three passes, none at the lowest bitrate,
\* and has settled after the third.
C11_Witness ==
    \E j \in DOMAIN jobs :
        /\ jobs[j].sized /\ jobs[j].pass = 3 /\ jobs[j].rates[3] > 100
        /\ Len(jobs[j].ends) = 3 /\ jobs[j].res = "ok"

\* C12: the video bitrate of the first pass of a size-targeted export with
\* target T bytes and trim duration D seconds is
\* max(100, floor(T*0.92*8/D/1000) - 128) kbps.
C12_FirstBitrate ==
    \A j \in DOMAIN jobs : (jobs[j].sized /\ jobs[j].pass >= 1) =>
        LET T == targetBytes
            D == duration
            kbps == (T * 184) \div (25000 * D) - 128
        IN  jobs[j].rates[1] = IF kbps > 100 THEN kbps ELSE 100

\* A first pass was started above the lowest bitrate.
C12_Witness ==
    \E j \in DOMAIN jobs :
        jobs[j].sized /\ jobs[j].pass >= 1 /\ jobs[j].rates[1] > 100

\* C13: when the third pass of a size-targeted export ended normally with its
\* output still over the target, the export has resolved with outputPath and
\* that output is in place.
C13_ExhaustionAccepted ==
    \A j \in DOMAIN jobs :
        (jobs[j].sized /\ Len(jobs[j].ends) = 3 /\ jobs[j].ends[3]) =>
            jobs[j].res = "ok" /\ jobs[j].output = "over"

\* The third pass of a size-targeted export ended over the target.
C13_Witness ==
    \E j \in DOMAIN jobs :
        jobs[j].sized /\ Len(jobs[j].ends) = 3 /\ jobs[j].ends[3]

\* The tasks that have started and whose run() has not yet settled them.
Active == {t \in DOMAIN qtasks : qtasks[t].st = "running"}

\* C14: the number of tasks started and not yet settled is at most the limit
\* of the queue, and the running counter equals that number.
C14_ConcurrencyBound ==
    /\ Cardinality(Active) <= concurrency
    /\ running = Cardinality(Active)

\* The limit is reached with more than one task running and a task waiting.
C14_Witness ==
    /\ Cardinality(Active) = concurrency
    /\ concurrency > 1
    /\ queue # <<>>

\* C15: tasks start in submission order: the k-th task to start is the k-th
\* task submitted, so no task starts before one submitted earlier.
C15_StartOrder ==
    \A k \in DOMAIN startLog : startLog[k] = k

\* Two tasks have waited in the queue and started, after a task submitted
\* later than another settled before it.
C15_Witness ==
    /\ \E t, u \in DOMAIN qtasks :
           /\ t < u /\ qtasks[t].queued /\ qtasks[u].queued
           /\ qtasks[t].st # "waiting" /\ qtasks[u].st # "waiting"
    /\ \E t, u \in DOMAIN qtasks :
           t < u /\ qtasks[t].st = "running" /\ qtasks[u].st \in {"resolved", "rejected"}

\* No task waits while fewer tasks run than the limit allows.
NoIdleSlot == queue # <<>> => Cardinality(Active) >= concurrency

\* What one step may do to the tasks: at most one running task settles; a
\* task becomes rejected only if it is that one, failing, or if it throws
\* when it is started; a settled task stays as it is; and the running counter
\* moves by the tasks that settled and the tasks that started to run.
StepIsolated ==
    LET settled == {t \in DOMAIN qtasks :
                       qtasks[t].st = "running" /\ qtasks'[t].st # "running"}
        begun == {t \in DOMAIN qtasks' : qtasks'[t].st = "running"} \ Active
    IN  /\ Cardinality(settled) <= 1
        /\ \A t \in DOMAIN qtasks :
               /\ qtasks[t].st \in {"resolved", "rejected"} => qtasks'[t].st = qtasks[t].st
               /\ qtasks[t].st = "waiting" =>
                      \/ qtasks'[t].st \in {"waiting", "running"}
                      \/ qtasks'[t].st = "rejected" /\ qtasks[t].throws
        /\ running' = running - Cardinality(settled) + Cardinality(begun)

\* C16: a failing task settles its own promise only and frees its slot once,
\* and the queue goes on: no other task's promise is touched and no task is
\* left waiting while a slot is free.
C16_FailureIsolation == [](NoIdleSlot) /\ [][StepIsolated]_vars

\* With limit 1, a task that ran has rejected and the task submitted next,
\* which waited in the queue, is running.
C16_Witness ==
    /\ concurrency = 1
    /\ \E t \in DOMAIN qtasks :
           /\ t + 1 \in DOMAIN qtasks
           /\ ~qtasks[t].throws /\ qtasks[t].st = "rejected"
           /\ qtasks[t + 1].queued /\ qtasks[t + 1].st = "running"

\* Evaluations i and j, in that order, are about the same path.
SamePath(i, j) == i < j /\ evals[i].path = evals[j].path

\* C17: 'file-added' is emitted only by a timer that finds the path present
\* with content and not known, and the path is then known; a timer that finds
\* it present but empty, or known, emits nothing and leaves the known-file set
\* as it was; a path is reported added at most once per appearance.
C17_AddedOncePerAppearance ==
    /\ \A i \in DOMAIN evals :
           /\ evals[i].sent = "file-added" =>
                  evals[i].state = "full" /\ ~evals[i].wasTracked /\ evals[i].tracked
           /\ (evals[i].state = "empty" \/ (evals[i].state = "full" /\ evals[i].wasTracked)) =>
                  evals[i].sent = "none" /\ evals[i].tracked = evals[i].wasTracked
    /\ \A i, j \in DOMAIN evals :
           (SamePath(i, j) /\ evals[i].sent = "file-added" /\ evals[j].sent = "file-added") =>
               evals[i].epoch # evals[j].epoch

\* C18: 'file-removed' is emitted only by a timer that finds the path gone
\* and known, and the path is then no longer known; a path is reported removed
\* at most once per disappearance, and never if it was not known.
C18_RemovedOncePerDisappearance ==
    /\ \A i \in DOMAIN evals :
           evals[i].sent = "file-removed" =>
               evals[i].state = "absent" /\ evals[i].wasTracked /\ ~evals[i].tracked
    /\ \A i, j \in DOMAIN evals :
           (SamePath(i, j) /\ evals[i].sent = "file-removed" /\ evals[j].sent = "file-removed") =>
               evals[i].epoch # evals[j].epoch

\* The timers armed for file f.
TimersOf(f) == {t \in DOMAIN timers : timers[t].path = f}

\* C19: at most one debounce timer is pending per path; a notification that
\* comes within the debounce window of the one before leaves the earlier
\* timer cleared, without an evaluation, so that a burst is evaluated once, by
\* the timer its last notification armed; a timer makes at most one
\* evaluation; and a file is reported added only with content.
C19_DebounceCollapse ==
    /\ \A f \in VideoFiles :
           Cardinality({t \in TimersOf(f) : timers[t].st = "pending"}) <= 1
    /\ \A f \in VideoFiles : \A t, u \in TimersOf(f) :
           (u = t + 1 /\ timers[u].gap < DebounceTicks) =>
               /\ timers[t].st = "cleared"
               /\ \A i \in DOMAIN evals : evals[i].timer # t
    /\ \A i, j \in DOMAIN evals : i # j => evals[i].timer # evals[j].timer
    /\ \A i \in DOMAIN evals : evals[i].sent = "file-added" => evals[i].state = "full"

\* C20: the files found when a watch starts are in its known-file set without
\* an event, and a timer of the watch that finds such a file, never gone
\* since, still there emits nothing.
C20_BaselineSilent ==
    \A w \in DOMAIN watches :
        /\ \A i \in DOMAIN evals :
               (/\ evals[i].watch = w
                /\ evals[i].path \in watches[w].baseline
                /\ evals[i].epoch = watches[w].baseEpoch[evals[i].path]
                /\ evals[i].state # "absent") =>
                   evals[i].wasTracked /\ evals[i].sent = "none"
        /\ \A f \in watches[w].baseline :
               (~\E i \in DOMAIN evals : evals[i].watch = w /\ evals[i].path = f) =>
                   f \in watches[w].existingFiles

\* A timer of a watch has found a file of its baseline, empty when the watch
\* started, with content.
C20_Witness ==
    \E i \in DOMAIN evals :
        LET w == evals[i].watch
        IN  /\ evals[i].path \in watches[w].baseline
            /\ evals[i].epoch = watches[w].baseEpoch[evals[i].path]
            /\ evals[i].state = "full"
            /\ evals[i].sent = "none"

\* C21: a watch that was stopped emits no event: every 'file-added' and
\* 'file-removed' comes from a timer of the watch registered at that moment.
C21_StoppedWatchSilent ==
    \A i \in DOMAIN evals : evals[i].sent # "none" => evals[i].live

\* The evaluations by which watch w put file f in its known-file set.
Insertions(w, f) ==
    {i \in DOMAIN evals : /\ evals[i].watch = w /\ evals[i].path = f
                          /\ evals[i].tracked /\ ~evals[i].wasTracked}

\* The state file f was in when watch w, which knows it, last put it in its
\* known-file set: by a timer, or else by the baseline enumeration.
InsertedAs(w, f) ==
    IF Insertions(w, f) # {}
    THEN evals[CHOOSE i \in Insertions(w, f) : \A j \in Insertions(w, f) : j <= i].state
    ELSE watches[w].baseState[f]

\* A timer that finds a file with content that its watch does not know puts
\* it in the known-file set and, if there is a window, reports it added.
GrownReported ==
    \A i \in DOMAIN evals :
        (evals[i].state = "full" /\ ~evals[i].wasTracked) =>
            /\ evals[i].tracked
            /\ evals[i].sent = "file-added" \/ evals[i].unsent

BuiltPlans ==
    UNION {{jobs[j].plans[k] : k \in DOMAIN jobs[j].plans} : j \in DOMAIN jobs}

\* The audio outputs a plan maps, in order, and its gain stages and mixes.
AudioMaps(plan) ==
    SelectSeq(plan.mapOptions,
              LAMBDA o : o.opt = "-map" /\ o.arg # VideoStream)
GainsOf(plan) ==
    {k \in DOMAIN plan.filterParts : plan.filterParts[k].filter = "volume"}
MixesOf(plan) ==
    {k \in DOMAIN plan.filterParts : plan.filterParts[k].filter = "amix"}

\* The volume the export was given for stream i: 1.0 if none was given.
VolumeOf(i) == IF audioTracks[i] = NoVolume THEN 100 ELSE audioTracks[i]
Streams == 0..(numAudioStreams - 1)
Adjusted == {i \in Streams : VolumeOf(i) # 100}

\* The plan has one gain stage for each stream whose volume is not 1.0, at
\* that volume, and no other.
GainsExact(plan) ==
    /\ Cardinality(GainsOf(plan)) = Cardinality(Adjusted)
    /\ \A i \in Adjusted :
          \E k \in GainsOf(plan) : plan.filterParts[k] = GainStage(i, VolumeOf(i))

\* Stream i as a plan takes it: through its gain stage iff its volume is not
\* 1.0.
Routed(i) == IF i \in Adjusted THEN GainLabel(i) ELSE SourceAudio(i)

\* The mixing mode in effect: combine is the default and is forced for an
\* audio-only output.
ModeInEffect ==
    IF outputType = "mp3" \/ audioMode = "undefined" THEN "combine" ELSE audioMode

\* C22: for a source with n >= 2 audio streams and any volumes, a combine
\* plan has a gain stage for exactly the streams whose volume is not 1.0, one
\* mix of all n streams with duration = longest, and exactly one mapped audio
\* output; a separate plan maps exactly n audio outputs in stream order, each
\* through a gain stage iff its volume is not 1.0, and has no mix.
C22_MixingPlan ==
    \A plan \in BuiltPlans :
        numAudioStreams >= 2 =>
            /\ GainsExact(plan)
            /\ ModeInEffect = "combine" =>
                  /\ \E k \in MixesOf(plan) :
                        /\ MixesOf(plan) = {k}
                        /\ plan.filterParts[k].n = numAudioStreams
                        /\ plan.filterParts[k].inputs =
                              [i \in 1..numAudioStreams |-> Routed(i - 1)]
                        /\ plan.filterParts[k].duration = "longest"
                  /\ AudioMaps(plan) = <<MapOption(MixLabel)>>
            /\ ModeInEffect = "separate" =>
                  /\ MixesOf(plan) = {}
                  /\ AudioMaps(plan) =
                        [i \in 1..numAudioStreams |-> MapOption(Routed(i - 1))]

\* A separate plan was built for three streams at volumes 1.0, 1.0, 0.5.
C22_Witness ==
    /\ numAudioStreams = 3
    /\ audioTracks = (0 :> 100) @@ (1 :> 100) @@ (2 :> 50)
    /\ audioMode = "separate"
    /\ outputType = "video"
    /\ \E plan \in BuiltPlans :
          Cardinality(GainsOf(plan)) = 1 /\ Len(AudioMaps(plan)) = 3

\* C25: with zero audio streams a plan has no audio mapping and no filter in
\* either mode; a combine plan for exactly one stream maps it directly, with
\* no gain stage and no mix, if its volume is 1.0, and routes it through a
\* gain stage into a mix otherwise.
C25_PlanEdges ==
    \A plan \in BuiltPlans :
        /\ numAudioStreams = 0 =>
              AudioMaps(plan) = <<>> /\ plan.filterParts = <<>>
        /\ (numAudioStreams = 1 /\ ModeInEffect = "combine") =>
              IF VolumeOf(0) = 100
              THEN /\ AudioMaps(plan) = <<MapOption(SourceAudio(0))>>
                   /\ plan.filterParts = <<>>
              ELSE /\ plan.filterParts =
                         <<GainStage(0, VolumeOf(0)), Mix(<<GainLabel(0)>>)>>
                   /\ AudioMaps(plan) = <<MapOption(MixLabel)>>

\* A combine plan was built for a single stream whose volume is not 1.0.
C25_Witness ==
    /\ numAudioStreams = 1
    /\ audioMode = "combine"
    /\ VolumeOf(0) = 150
    /\ \E plan \in BuiltPlans : Len(plan.filterParts) = 2

\* The export is audio-only; it is a video export that copies the video
\* stream.
AudioOnly == outputType = "mp3"
Passthrough == outputType = "video" /\ quality # "compressed"

\* Job j has made at most one encode pass, exactly one if it has settled, and
\* what that pass wrote is still there.
SinglePass(j) ==
    /\ jobs[j].pass <= 1
    /\ jobs[j].attempts = 0
    /\ Len(jobs[j].plans) = jobs[j].pass
    /\ jobs[j].res # "pending" => jobs[j].pass = 1
    /\ jobs[j].res = "ok" => jobs[j].output = "written"

\* C26: an audio-only export drops the video stream and mixes in combine
\* whatever mode was requested, and runs exactly one encode pass whatever the
\* quality and the size target; a passthrough video export runs exactly one
\* encode pass too and never deletes or re-encodes its output.
C26_SinglePassKinds ==
    \A j \in DOMAIN jobs :
        /\ AudioOnly =>
              /\ SinglePass(j)
              /\ \A plan \in BuiltPlans :
                    /\ plan.mapOptions[1] = NoVideo
                    /\ \A k \in DOMAIN plan.mapOptions :
                          plan.mapOptions[k] # MapOption(VideoStream)
                    /\ Len(AudioMaps(plan)) <= 1
                    /\ numAudioStreams >= 2 =>
                          \E k \in MixesOf(plan) :
                              plan.filterParts[k].n = numAudioStreams
        /\ Passthrough => SinglePass(j)

\* An audio-only export asked to be compressed to a size, with its streams
\* kept separate, has finished.
C26_Witness ==
    /\ AudioOnly
    /\ quality = "compressed"
    /\ targetSizeMB = 1
    /\ audioMode = "separate"
    /\ numAudioStreams = 2
    /\ \E j \in DOMAIN jobs : jobs[j].res = "ok" /\ jobs[j].pass = 1

\* C23: every progress report sent on carries the token of the export call
\* whose pass produced it, and the renderer applies a report only if that
\* token is its current one.
C23_ProgressTagged ==
    \A k \in DOMAIN progressEvents :
        /\ progressEvents[k].jobId = jobs[progressEvents[k].job].jobId
        /\ progressEvents[k].seen = "applied" =>
              progressEvents[k].jobId = progressEvents[k].current

\* A report of the first export reached the renderer after it had started a
\* second one and was ignored; a report of the second was applied.
C23_Witness ==
    /\ \E k \in DOMAIN progressEvents :
          /\ progressEvents[k].job = 1
          /\ progressEvents[k].current = 2
          /\ progressEvents[k].seen = "ignored"
    /\ \E k \in DOMAIN progressEvents :
          progressEvents[k].job = 2 /\ progressEvents[k].seen = "applied"

\* The passes of job j whose external process has not gone.
LiveProcs(j) ==
    {k \in DOMAIN jobs[j].procs : jobs[j].procs[k] \in {"starting", "running", "killed"}}

\* C24: an export job has at most one live external process at any time, a
\* pass starts only when the processes of all earlier passes have gone, and
\* once the call has settled no process of the job is live (so none was
\* started after it settled).
C24_OneProcessPerJob ==
    \A j \in DOMAIN jobs :
        /\ Cardinality(LiveProcs(j)) <= 1
        /\ \A k \in LiveProcs(j) : k = Len(jobs[j].procs)
        /\ jobs[j].res # "pending" => LiveProcs(j) = {}

\* A size-targeted export has settled after three passes, while another
\* export of the same renderer is running.
C24_Witness ==
    \E j, i \in DOMAIN jobs :
        /\ jobs[j].res = "ok"
        /\ Len(jobs[j].procs) = 3
        /\ jobs[i].res = "pending"
        /\ LiveProcs(i) # {}

\* The extraction task that invocation i awaits.
TaskOf(i) == tasks[calls[i].task]

\* C28: a forceRefresh request for extracted audio never returns a cached
\* set that was there: the artefacts in the cache directory are deleted, the
\* request starts a generation of its own, which (unless the probe of the
\* source fails) extracts every stream, and the request's result is that
\* generation's.
C28_ForceRegenerates ==
    \A i \in DOMAIN calls :
        (calls[i].kind = "audio" /\ calls[i].force) =>
            /\ calls[i].started
            /\ calls[i].task \in DOMAIN tasks
            /\ \A j \in 1..(i - 1) : calls[j].task # calls[i].task
            /\ TaskOf(i).found = 0
            /\ ~TaskOf(i).reused
            /\ (TaskOf(i).phase = "extracting" \/ TaskOf(i).res = "ok") =>
                  \A n \in 1..TaskOf(i).expected : TaskOf(i).tracks[n] # "none"
            /\ calls[i].st = TaskOf(i).res

\* A forceRefresh request made when a cached set of two tracks was there has
\* resolved.
C28_Witness ==
    \E i \in DOMAIN calls :
        /\ calls[i].force
        /\ calls[i].st = "ok"
        /\ TaskOf(i).expected = 2
        /\ \E j \in 1..(i - 1) :
              /\ ~calls[j].force
              /\ calls[j].st = "ok"
              /\ j \notin calls[i].open

\* C29: an artefact is served from the cache only if its file is there with
\* content: a request that finds a file of size zero is not answered with it,
\* for any artefact kind, and is served by a generation.
C29_NonEmptyHit ==
    /\ \A i \in DOMAIN calls : calls[i].found \in {"none", "full"}
    /\ \A t \in DOMAIN tasks : tasks[t].reused => tasks[t].valid = "yes"

\* C30: an extraction resolves with its N paths only if all N tracks ended
\* without error and every expected file was there with size > 0 at that
\* moment; if all tracks ended and some file was missing or empty, it rejects
\* and the cache directory is left with no file.
C30_ValidityCheck ==
    \A t \in DOMAIN tasks :
        /\ (tasks[t].res = "ok" /\ tasks[t].expected > 0 /\ ~tasks[t].reused) =>
              /\ tasks[t].completed = tasks[t].expected
              /\ ~tasks[t].hasError
              /\ \A n \in 1..tasks[t].expected : tasks[t].tracks[n] = "resolved"
              /\ tasks[t].valid = "yes"
        /\ (~tasks[t].reused /\ tasks[t].valid = "no") =>
              tasks[t].res = "err" /\ tasks[t].left = 0

\* The only extraction there has been was rejected after both its tracks had
\* ended without error, one of them with an empty file.
C30_Witness ==
    /\ Len(tasks) = 1
    /\ tasks[1].expected = 2
    /\ tasks[1].completed = 2
    /\ ~tasks[1].hasError
    /\ tasks[1].valid = "no"
    /\ tasks[1].res = "err"

\* The invocations that await task t.
Awaiting(t) == {i \in DOMAIN calls : calls[i].task = t}

Unsettled(s) == {j \in DOMAIN jobs : jobs[j].session = s /\ jobs[j].res = "pending"}

\* C32: a sender is in canceledExports only between a cancel-export that
\* killed a live process of it and the report of that process's termination;
\* so it is not there when no export of the sender is unsettled, and a later
\* export of the sender that fails with no cancel request is not taken for
\* canceled.
C32_FlagHygiene ==
    /\ \A s \in canceledExports :
          \E j \in Unsettled(s) : jobs[j].phase = "killed"
    /\ \A j \in DOMAIN jobs : jobs[j].byFlag => jobs[j].cancelReq

\* C33: while an encode process of a sender is running, after its 'start'
\* and before it exits, activeExports holds for that sender a running process
\* of that sender, so that cancel-export reaches one; the 'end' or 'error' of
\* one process does not remove the registration of another that still runs.
C33_HandleIdentity ==
    \A j \in DOMAIN jobs :
        jobs[j].phase = "running" =>
            /\ activeExports[jobs[j].session] # NoCmd
            /\ jobs[activeExports[jobs[j].session][1]].session = jobs[j].session
            /\ jobs[activeExports[jobs[j].session][1]].phase = "running"

\* Task t has a track process that has not terminated.
HasRunningTrack(t) == \E n \in TrackIds : tasks[t].tracks[n] = "running"

\* C34: the registration of an extraction generation is not removed while a
\* track process of it is running, so no request for the same cache directory
\* starts another generation, or is served from the directory, while
\* processes of a rejected generation can still write there.
C34_NoWriteOverlap ==
    /\ \A t \in DOMAIN tasks :
          (tasks[t].kind = "audio" /\ HasRunningTrack(t)) =>
              audioExtractTasks[tasks[t].key] = t
    /\ \A t, u \in DOMAIN tasks :
          (/\ t # u
           /\ tasks[t].kind = "audio"
           /\ tasks[u].kind = "audio"
           /\ tasks[t].key = tasks[u].key
           /\ HasRunningTrack(t)) => tasks[t].res = "pending"

\* C35: when a pass of a size-targeted export resolves as canceled the call
\* returns the canceled outcome at once: no further pass is started, and the
\* pipeline neither looks at the size of the output nor deletes it.
C35_CancelStopsLoop ==
    \A j \in DOMAIN jobs :
        (jobs[j].sized /\ jobs[j].res = "canceled") =>
            /\ jobs[j].phase = "done"
            /\ LiveProcs(j) = {}
            /\ jobs[j].procs[Len(jobs[j].procs)] = "failed"
            /\ Len(jobs[j].procs) = jobs[j].pass
            /\ jobs[j].attempts = jobs[j].pass - 1
            /\ Len(jobs[j].ends) = jobs[j].pass - 1
            /\ jobs[j].killed => jobs[j].output = "partial"

\* A size-targeted export was canceled in its second pass.
C35_Witness ==
    \E j \in DOMAIN jobs :
        /\ jobs[j].sized
        /\ jobs[j].res = "canceled"
        /\ jobs[j].killed
        /\ jobs[j].pass = 2
        /\ jobs[j].output = "partial"

\* The evaluations by which watch w sent an event for file f.
Emitted(w, f) ==
    {i \in DOMAIN evals : /\ evals[i].watch = w /\ evals[i].path = f
                          /\ evals[i].sent # "none"}

\* Evaluation i sent the first event of watch w for file f.
FirstEmitted(w, f, i) == i \in Emitted(w, f) /\ \A k \in Emitted(w, f) : i <= k

\* Evaluations i and j sent two events of watch w for file f, one after the
\* other with none in between.
NextEmitted(w, f, i, j) ==
    /\ i \in Emitted(w, f) /\ j \in Emitted(w, f) /\ i < j
    /\ \A k \in Emitted(w, f) : k <= i \/ k >= j

\* C36: for each path, the events one watch emits alternate between
\* 'file-added' and 'file-removed', starting with 'file-removed' if the path
\* was in the baseline of the watch and with 'file-added' otherwise, and after
\* each event the path is known to the watch iff the event was 'file-added'.
C36_WatchEventsAlternate ==
    \A w \in DOMAIN watches : \A f \in VideoFiles :
        /\ \A i \in DOMAIN evals :
               FirstEmitted(w, f, i) =>
                   evals[i].sent = IF f \in watches[w].baseline
                                   THEN "file-removed" ELSE "file-added"
        /\ \A i, j \in DOMAIN evals :
               NextEmitted(w, f, i, j) => evals[i].sent # evals[j].sent
        /\ \A i \in Emitted(w, f) :
               evals[i].tracked <=> evals[i].sent = "file-added"

\* The extraction tasks.
AudioTasks == {t \in DOMAIN tasks : tasks[t].kind = "audio"}

\* No extraction is pending once its probe has called back and none of its
\* track processes is running.
SettledWhenTerminated ==
    \A t \in AudioTasks :
        (tasks[t].phase # "probing" /\ ~HasRunningTrack(t)) => tasks[t].res # "pending"

\* In one step: an extraction that has settled keeps its outcome, and so does
\* every call that waited for it.
SettledOnce ==
    /\ \A t \in AudioTasks : tasks[t].res # "pending" => tasks'[t].res = tasks[t].res
    /\ \A c \in DOMAIN calls :
           (calls[c].kind = "audio" /\ calls[c].st # "pending") =>
               calls'[c].st = calls[c].st

\* C37: with ffprobe calling back and every started track reporting 'end' or
\* 'error' in the end, every extraction request settles, once: it is not
\* pending after all its track processes have terminated, and an outcome
\* once given does not change.
C37_ExtractionSettles ==
    /\ [](SettledWhenTerminated)
    /\ [][SettledOnce]_vars
    /\ \A c \in 1..MaxAudioCalls :
           (c \in DOMAIN calls) ~> (c \in DOMAIN calls /\ calls[c].st # "pending")

\* An extraction of two tracks has been rejected by the failure of one track
\* while the other ended, and the call that waited for it is rejected.
C37_Witness ==
    \E c \in DOMAIN calls :
        /\ calls[c].kind = "audio" /\ calls[c].st = "err"
        /\ tasks[calls[c].task].expected = 2
        /\ tasks[calls[c].task].completed = 1
        /\ tasks[calls[c].task].hasError
        /\ ~HasRunningTrack(calls[c].task)

\* Task t has been submitted and its promise has settled.
QSettled(t) == t \in DOMAIN qtasks /\ qtasks[t].st \in {"resolved", "rejected"}

\* A task whose promise has settled was started, and a task that waits is in
\* the waiting list.
StartedBeforeSettled ==
    \A t \in DOMAIN qtasks :
        /\ qtasks[t].st # "waiting" => \E k \in DOMAIN startLog : startLog[k] = t
        /\ qtasks[t].st = "waiting" => \E k \in DOMAIN queue : queue[k] = t

\* C38: if every started task settles in the end, every task submitted with
\* add() is started and its promise settles, whatever the limit.
C38_QueueLiveness ==
    /\ [](StartedBeforeSettled)
    /\ \A t \in 1..MaxTasks : (t \in DOMAIN qtasks) ~> QSettled(t)

\* With limit 1, the last of the tasks submitted, which waited behind two
\* others, has settled.
C38_Witness ==
    /\ concurrency = 1
    /\ Len(qtasks) = MaxTasks
    /\ qtasks[MaxTasks].queued
    /\ qtasks[MaxTasks - 1].queued
    /\ ~qtasks[MaxTasks].throws
    /\ QSettled(MaxTasks)

\* C40: between two runs of the queue's code, jobs wait only while the
\* running counter is at the limit, and the jobs in the waiting list are the
\* tasks not yet started, each once.
C40_WorkConserving ==
    /\ queue # <<>> => running = concurrency
    /\ \A k \in DOMAIN queue : qtasks[queue[k]].st = "waiting"
    /\ \A k, n \in DOMAIN queue : k # n => queue[k] # queue[n]

\* With limit 2, a task has settled, the oldest waiting job has taken its
\* slot, and another job still waits behind two running tasks.
C40_Witness ==
    /\ concurrency = 2
    /\ running = 2
    /\ queue # <<>>
    /\ \E t, u \in DOMAIN qtasks :
           /\ QSettled(t) /\ ~qtasks[t].throws
           /\ qtasks[u].queued /\ qtasks[u].st = "running"

\* The current handleExport() call still awaits its export.
CurrentRunning ==
    /\ exportTokenRef \in DOMAIN panel.calls
    /\ panel.calls[exportTokenRef] = "awaiting"

\* The output shown is that of the current job.
OutputOfCurrent ==
    panel.processedVideoPath # 0 => panel.processedVideoPath = exportTokenRef

\* A failure shown is that of the current job.
FailureOfCurrent ==
    panel.exportStatus = "failed" => panel.statusOf = exportTokenRef

\* The processing flag is set while the current job runs.
ProcessingWhileRunning == CurrentRunning => panel.isProcessing

\* C39: the outcome of a job whose token is no longer the current one does
\* not change what the panel shows for the current job: the output shown is
\* the current job's, an 'Export failed' status is the current job's, and the
\* processing flag stays set while the current job runs.
C39_SupersededOutcome ==
    /\ OutputOfCurrent
    /\ FailureOfCurrent
    /\ ProcessingWhileRunning

====
